---- MODULE Spec2Model ----
(***************************************************************************)
(* Brothers Lodge: the Room/Tenant store (Prisma over PostgreSQL) and the  *)
(* route handlers that serve /api/tenants, /api/tenants/[id],              *)
(* /api/rooms/[id] and /api/rooms/[id]/tenants.                            *)
(*                                                                         *)
(* Every handler is an async function: between two awaited store calls     *)
(* another request may run.  A handler is therefore one action per awaited *)
(* store call; a request that has made its first call and not yet its      *)
(* second is held in `inflight`.  Local computation (parsing the id,       *)
(* validating the body, building the response) belongs to the action of    *)
(* the store call it precedes or follows.                                  *)
(*                                                                         *)
(* Strings are sequences of one-character strings, so that parseInt,       *)
(* Number and the regular expressions are computed on the characters.      *)
(***************************************************************************)
EXTENDS Integers, Sequences, FiniteSets, Bags, TLC

\* ------------------------------------------------------------------ bounds
\* Rooms seeded before the service starts (the seed script creates 19).
NumRooms == 2
\* Tenant rows ever inserted (the tenants.id sequence stops here).
MaxTenants == 2
\* Requests that may be between two store calls at the same time.
MaxInFlight == 2
\* The latest instant now() returns: a write that stamps a row needs one more.
MaxClock == 3
\* The longest string given to a validator of the pages.
MaxInput == 13
\* The longest list of rooms the table page sorts (besides the list of 4.4).
MaxSorted == 3
\* The longest list of tenant forms of the registration page.
MaxForms == 2
\* Requests of the table page that are under way at the same time.
MaxPageRequests == 1
\* setTimeout callbacks of the table page that are pending at the same time.
MaxTimers == 1

\* ----------------------------------------------------------------- strings
DigitSeq == <<"0", "1", "2", "3", "4", "5", "6", "7", "8", "9">>

DigitChars == {DigitSeq[i] : i \in 1..10}

DigitVal(c) == (CHOOSE i \in 1..10 : DigitSeq[i] = c) - 1

\* The decimal numeral of a small natural number.
Str(n) == IF n < 10 THEN <<DigitSeq[n + 1]>>
          ELSE <<DigitSeq[(n \div 10) + 1], DigitSeq[(n % 10) + 1]>>

\* A string of n digits: "123456789012..." cut to length n.
Digits(n) == [i \in 1..n |-> DigitSeq[(i % 10) + 1]]

AllDigits(s) == \A i \in 1..Len(s) : s[i] \in DigitChars

RECURSIVE DecimalValue(_)
DecimalValue(s) ==
    IF s = <<>> THEN 0
    ELSE 10 * DecimalValue(SubSeq(s, 1, Len(s) - 1)) + DigitVal(s[Len(s)])

\* The JavaScript value NaN; a number n is <<n>>.
NaN == <<>>

isNaN(x) == x = NaN

\* parseInt(s): the longest prefix of digits, NaN when there is none.
parseInt(s) ==
    LET k == CHOOSE i \in 0..Len(s) :
                 /\ \A j \in 1..i : s[j] \in DigitChars
                 /\ (i < Len(s) => s[i + 1] \notin DigitChars)
    IN IF k = 0 THEN NaN ELSE <<DecimalValue(SubSeq(s, 1, k))>>

\* As MatchesDigits, for the pattern /^\d{1,n}$/ (at most n digits).
MatchesUpToDigits(s, n) == Len(s) >= 1 /\ Len(s) <= n /\ AllDigits(s)

\* /^\d{n}$/.test(s)
MatchesDigits(s, n) == Len(s) = n /\ AllDigits(s)

\* Number(v) of a JSON string or an absent value: "" is 0, a string of digits
\* its value, anything else (and undefined) NaN.
Number(b, key) ==
    IF key \notin DOMAIN b THEN NaN
    ELSE IF AllDigits(b[key]) THEN <<DecimalValue(b[key])>>
    ELSE NaN

\* ------------------------------------------------------------------ schema
\* PATCH /api/tenants/[id]: the fields it requires, in the order it checks them.
requiredFields ==
    <<"name", "fatherName", "villageName", "tehsil", "policeStation", "district",
      "pincode", "state", "phoneNumber", "fatherPhoneNumber", "aadharNumber">>

phoneNumberFields == <<"phoneNumber", "fatherPhoneNumber">>

\* model Tenant: the columns declared String (not String?).
TenantRequiredColumns ==
    {"name", "fatherName", "villageName", "tehsil", "policeStation", "district",
     "pincode", "state", "aadharNumber", "phoneNumber", "fatherPhoneNumber"}

\* SQL NULL in a nullable column (email String?).
Null == <<"NULL">>

\* prisma/seed.ts: the first rooms it creates, by name.
SeedRoomName(i) ==
    IF i = 1
    THEN <<"G", "1", " ", "+", " ", "G", "2", " ", "+", " ", "G", "3">>
    ELSE <<"F">> \o Str(i - 1)

\* A DateTime that holds a lease date: the calendar date of its UTC value.
Date(y, m, d) == [y |-> y, m |-> m, d |-> d]

\* The day the seed ran: period_from and period_to DEFAULT CURRENT_TIMESTAMP.
SeedDate == Date(2024, 1, 1)

\* model Room, as created by the seed: rentAmount @default(0), the period
\* columns and createdAt @default(now()), updatedAt set by the Prisma client.
\* createdAt and updatedAt are instants of a logical clock that starts at 0.
SeedRoom(i) ==
    [name |-> SeedRoomName(i), rentAmount |-> 0,
     periodFrom |-> SeedDate, periodTo |-> SeedDate,
     createdAt |-> 0, updatedAt |-> 0]

\* ---------------------------------------------------------- request bodies
\* A body is a function from the keys it carries to their (string) values.
Without(b, keys) == [k \in DOMAIN b \ keys |-> b[k]]

With(b, key, v) == [k \in DOMAIN b \cup {key} |-> IF k = key THEN v ELSE b[k]]

ValidA ==
    [name |-> <<"A">>, fatherName |-> <<"P">>, villageName |-> <<"v">>,
     tehsil |-> <<"t">>, policeStation |-> <<"p">>, district |-> <<"d">>,
     pincode |-> Digits(6), state |-> <<"s">>, email |-> <<"a", "@", "b">>,
     phoneNumber |-> Digits(10), fatherPhoneNumber |-> Digits(10),
     aadharNumber |-> Digits(12)]

\* A second well-formed body: another name and phone number, no email key.
ValidB ==
    Without(With(With(ValidA, "name", <<"B">>), "phoneNumber",
                 <<"9">> \o Digits(9)), {"email"})

\* "1234 5678 9012": an Aadhar number as the form displays it.
FormattedAadhar ==
    Digits(4) \o <<" ">> \o SubSeq(Digits(8), 5, 8) \o <<" ">> \o SubSeq(Digits(12), 9, 12)

\* Bodies whose fields are all present and non-empty, one format wrong in each.
BadFormatBodies ==
    {With(ValidA, "phoneNumber", Digits(9)),
     With(ValidA, "fatherPhoneNumber", Digits(11)),
     With(ValidA, "phoneNumber", Digits(9) \o <<"x">>),
     With(ValidA, "aadharNumber", FormattedAadhar),
     With(ValidA, "aadharNumber", Digits(11)),
     With(ValidA, "pincode", Digits(5)),
     With(ValidA, "pincode", Digits(7))}

\* Bodies that miss a required field (absent, or the empty string).
MissingFieldBodies ==
    {Without(ValidA, {"name"}),
     Without(ValidA, {"tehsil", "district"}),
     With(ValidA, "state", <<>>),
     With(ValidA, "phoneNumber", <<>>),
     Without(With(ValidA, "phoneNumber", Digits(9)), {"aadharNumber"})}

ValidBodies == {ValidA, ValidB}

Bodies == ValidBodies \cup BadFormatBodies \cup MissingFieldBodies

\* POST /api/tenants looks at no field but roomId: one well-formed body, one
\* with a 9-digit phone number and one without a name stand for the rest.
PostBodies ==
    {ValidA, With(ValidA, "phoneNumber", Digits(9)), Without(ValidA, {"name"})}

\* Those of them the Prisma client sends to the database.
StoredBodies == {ValidA, With(ValidA, "phoneNumber", Digits(9))}

\* The [id] segment of the path: ids stored or not, and a string parseInt
\* rejects.
IdParams(max) == {Str(i) : i \in 1..(max + 1)} \cup {<<"x">>}

\* body.roomId of POST /api/tenants: a room id stored or not, a string that
\* is no number, or no roomId at all.
WithRoomId(b) ==
    {With(b, "roomId", Str(i)) : i \in 1..(NumRooms + 1)}
        \cup {With(b, "roomId", <<"x">>), b}

\* ------------------------------------------------------------------- state
VARIABLES
    rooms,         \* table "rooms": id -> row
    tenants,       \* table "tenants": id -> row
    nextTenantId,  \* the sequence behind tenants.id
    inflight,      \* bag of requests between their first and second store call
    response       \* what the last step returned to its client, if anything

\* The registration page (app/tenants/page.tsx) in one browser: its React
\* state and the position of handleSubmit.
VARIABLES
    selectedRoom,  \* the id of the room selected, 0 when there is none (null)
    tenantForms,   \* the list of tenant forms
    submittedForms, \* tenantForms as the running handleSubmit captured it
    rentAmount,    \* the text of the rent field
    periodFrom,    \* the text of the period start field
    error,         \* the error message shown, <<>> when there is none (null)
    success,       \* the success message shown, <<>> when there is none
    submitting,
    shownTenants,  \* state `tenants`: the tenants listed for the room, by id
    pc,            \* where handleSubmit is: "idle" when it is not running
    wire,          \* the requests fetch has sent that no handler has taken yet
    roomResponse,  \* the response of its PATCH, NoResponse until it arrives
    responses      \* the responses of its POSTs, by form

\* The table page (app/tenants/table/page.tsx) in one browser: the React
\* state of its edit modal and of its actions.
VARIABLES
    isModalOpen,
    editingTenant,     \* the id and roomId of the tenant edited, NoTenant for null
    actionSuccess,     \* the success message, <<>> when there is none (null)
    actionError,       \* the error message, <<>> when there is none (null)
    processingAction,
    timers,            \* setTimeout callbacks of handleTenantUpdate not yet run
    tableWire          \* the requests of the page that no handler has taken yet

\* A call of a function of the pages that has no state: what was called
\* with what, and what it returned.
VARIABLES called, returned

page == <<selectedRoom, tenantForms, submittedForms, rentAmount, periodFrom, error, success,
          submitting, shownTenants, pc, wire, roomResponse, responses>>

calls == <<called, returned>>

tablePage == <<isModalOpen, editingTenant, actionSuccess, actionError,
               processingAction, timers, tableWire>>

vars == <<rooms, tenants, nextTenantId, inflight, response, page, calls, tablePage>>

store == <<rooms, tenants, nextTenantId>>

\* NextResponse.json(payload, {status}) returned to a request of handler op:
\* text is the error or message, n the count or the id of the row returned
\* (0 when there is none), list the ids of the rows of an array, in its order.
Json(op, status, text, n) ==
    [op |-> op, status |-> status, text |-> text, n |-> n, list |-> <<>>]

Error(op, status, text) == Json(op, status, text, 0)

NoResponse == Json("", 0, <<>>, 0)

TenantsOf(roomId) == {t \in DOMAIN tenants : tenants[t].roomId = roomId}

\* The createdAt and updatedAt values in the store.
Instants ==
    {0} \cup {rooms[r].updatedAt : r \in DOMAIN rooms}
        \cup {tenants[t].createdAt : t \in DOMAIN tenants}
        \cup {tenants[t].updatedAt : t \in DOMAIN tenants}

\* now() and new Date() of a write: an instant later than every instant
\* stored so far.
Now == 1 + (CHOOSE i \in Instants : \A j \in Instants : i >= j)

\* The database after the seed, the server with no request.
ServiceInit ==
    /\ rooms = [i \in 1..NumRooms |-> SeedRoom(i)]
    /\ tenants = << >>
    /\ nextTenantId = 1
    /\ inflight = EmptyBag
    /\ response = NoResponse

\* createEmptyTenantForm()
EmptyTenantForm ==
    [name |-> <<>>, fatherName |-> <<>>, villageName |-> <<>>, tehsil |-> <<>>,
     policeStation |-> <<>>, district |-> <<>>, pincode |-> <<>>, state |-> <<>>,
     email |-> <<>>, aadharNumber |-> <<>>, phoneNumber |-> <<>>,
     fatherPhoneNumber |-> <<>>]

\* The useState initial values; nothing is submitted.
PageInit ==
    /\ selectedRoom = 0
    /\ tenantForms = <<EmptyTenantForm>>
    /\ submittedForms = <<>>
    /\ rentAmount = <<>>
    /\ periodFrom = <<>>
    /\ error = <<>>
    /\ success = <<>>
    /\ submitting = FALSE
    /\ shownTenants = <<>>
    /\ pc = "idle"
    /\ wire = {}
    /\ roomResponse = NoResponse
    /\ responses = << >>

\* editingTenant === null
NoTenant == [id |-> 0, roomId |-> 0]

\* The useState initial values of the table page; no timer, no request.
TableInit ==
    /\ isModalOpen = FALSE
    /\ editingTenant = NoTenant
    /\ actionSuccess = <<>>
    /\ actionError = <<>>
    /\ processingAction = FALSE
    /\ timers = 0
    /\ tableWire = {}

NoCall == [fn |-> "", arg |-> <<>>]

CallsInit == called = NoCall /\ returned = FALSE

\* The pages are not open: the service alone.
ServiceOnly == UNCHANGED <<page, calls, tablePage>>

Init == ServiceInit /\ PageInit /\ CallsInit /\ TableInit

\* A handler step runs once the response of the step before it, if it
\* returned one, has been handed to the transport.
Ready == response = NoResponse

Deliver ==
    /\ response # NoResponse
    /\ response' = NoResponse
    /\ UNCHANGED <<store, inflight>>

\* A request makes its first store call only while the server has a free slot.
CanAccept == BagCardinality(inflight) < MaxInFlight

\* The handler awaits a store call: nothing is returned to the client yet.
Await(req) ==
    /\ inflight' = inflight (+) SetToBag({req})
    /\ response' = NoResponse

Resume(req) == inflight' = inflight (-) SetToBag({req})

\* ------------------------------------------------- /api/tenants/[id] (GET)
InvalidTenantId(op) == Error(op, 400, <<"Invalid tenant ID">>)

TenantNotFound(op) == Error(op, 404, <<"Tenant not found">>)

\* NextResponse.json(tenant): the row is identified by its id.
TenantJson(op, status, id) == Json(op, status, <<"tenant">>, id)

GetTenant(p) ==
    LET tenantId == parseInt(p) IN
    /\ Ready
    /\ response' =
         IF isNaN(tenantId) THEN InvalidTenantId("GET tenant")
         ELSE IF tenantId[1] \notin DOMAIN tenants THEN TenantNotFound("GET tenant")
         ELSE TenantJson("GET tenant", 200, tenantId[1])
    /\ UNCHANGED <<store, inflight>>

\* ----------------------------------------------- /api/tenants/[id] (PATCH)
\* !body[field]
Falsy(b, field) == field \notin DOMAIN b \/ b[field] = <<>>

MissingFields(b) == {i \in 1..Len(requiredFields) : Falsy(b, requiredFields[i])}

\* As FirstMissing, were the loop to report the last missing field.
LastMissing(b) ==
    requiredFields[CHOOSE i \in MissingFields(b) : \A j \in MissingFields(b) : i >= j]

\* The loop over requiredFields returns at the first field that is missing.
FirstMissing(b) ==
    requiredFields[CHOOSE i \in MissingFields(b) : \A j \in MissingFields(b) : i <= j]

BadPhoneFields(b) ==
    {i \in 1..Len(phoneNumberFields) :
        /\ ~Falsy(b, phoneNumberFields[i])
        /\ ~MatchesDigits(b[phoneNumberFields[i]], 10)}

FirstBadPhone(b) ==
    phoneNumberFields[CHOOSE i \in BadPhoneFields(b) : \A j \in BadPhoneFields(b) : i <= j]

\* The checks PATCH makes on the body before it touches the store, in order;
\* NoResponse when the body passes them all.
ValidateTenantBody(b) ==
    IF MissingFields(b) # {}
    THEN Error("PATCH tenant", 400, <<"Field '", FirstMissing(b), "' is required">>)
    ELSE IF BadPhoneFields(b) # {}
    THEN Error("PATCH tenant", 400, <<FirstBadPhone(b), " must be 10 digits">>)
    ELSE IF ~Falsy(b, "aadharNumber") /\ ~MatchesDigits(b["aadharNumber"], 12)
    THEN Error("PATCH tenant", 400, <<"Aadhar number must be 12 digits">>)
    ELSE IF ~Falsy(b, "pincode") /\ ~MatchesDigits(b["pincode"], 6)
    THEN Error("PATCH tenant", 400, <<"Pincode must be 6 digits">>)
    ELSE NoResponse

\* prisma.tenant.update({data}): a key whose value is undefined is left out
\* of the UPDATE (only email can be undefined here); roomId is not in data.
\* The client sets the @updatedAt column to the time of the call.
\* As UpdatedRow, were roomId among the data of the update.
UpdatedRowMoved(row, b) ==
    [row EXCEPT !.name = b["name"], !.fatherName = b["fatherName"],
                !.villageName = b["villageName"], !.tehsil = b["tehsil"],
                !.policeStation = b["policeStation"], !.district = b["district"],
                !.pincode = b["pincode"], !.state = b["state"],
                !.email = IF "email" \in DOMAIN b THEN b["email"] ELSE @,
                !.aadharNumber = b["aadharNumber"],
                !.phoneNumber = b["phoneNumber"],
                !.fatherPhoneNumber = b["fatherPhoneNumber"],
                !.roomId = IF isNaN(Number(b, "roomId")) THEN @ ELSE Number(b, "roomId")[1],
                !.updatedAt = Now]

UpdatedRow(row, b) ==
    [row EXCEPT !.name = b["name"], !.fatherName = b["fatherName"],
                !.villageName = b["villageName"], !.tehsil = b["tehsil"],
                !.policeStation = b["policeStation"], !.district = b["district"],
                !.pincode = b["pincode"], !.state = b["state"],
                !.email = IF "email" \in DOMAIN b THEN b["email"] ELSE @,
                !.aadharNumber = b["aadharNumber"],
                !.phoneNumber = b["phoneNumber"],
                !.fatherPhoneNumber = b["fatherPhoneNumber"],
                !.updatedAt = Now]

PatchTenantRequest(id, b) == [op |-> "PATCH tenant", id |-> id, body |-> b]

\* Up to and including prisma.tenant.findUnique.
PatchTenantCheck(p, b) ==
    LET tenantId == parseInt(p) IN
    /\ Ready
    /\ UNCHANGED store
    /\ IF isNaN(tenantId)
       THEN response' = InvalidTenantId("PATCH tenant") /\ UNCHANGED inflight
       ELSE IF ValidateTenantBody(b) # NoResponse
       THEN response' = ValidateTenantBody(b) /\ UNCHANGED inflight
       ELSE IF tenantId[1] \notin DOMAIN tenants
       THEN response' = TenantNotFound("PATCH tenant") /\ UNCHANGED inflight
       ELSE /\ CanAccept
            /\ Await(PatchTenantRequest(tenantId[1], b))

\* prisma.tenant.update: throws P2025 when the row is gone, which the catch
\* block reports as 500 (tenants has no unique column, so never P2002).
PatchTenantUpdate(req) ==
    /\ req.op = "PATCH tenant"
    /\ Ready
    /\ Resume(req)
    /\ UNCHANGED <<rooms, nextTenantId>>
    /\ IF req.id \in DOMAIN tenants
       THEN /\ Now <= MaxClock
            /\ tenants' = [tenants EXCEPT ![req.id] = UpdatedRow(@, req.body)]
            /\ response' = TenantJson("PATCH tenant", 200, req.id)
       ELSE /\ UNCHANGED tenants
            /\ response' = Error("PATCH tenant", 500, <<"Failed to update tenant">>)

\* ---------------------------------------------- /api/tenants/[id] (DELETE)
DeleteTenantRequest(id) == [op |-> "DELETE tenant", id |-> id]

\* The rows of a table other than `ids`.
RowsExcept(table, ids) == [i \in DOMAIN table \ ids |-> table[i]]

\* As DeleteTenantCheck, without the check of existingTenant.
DeleteTenantUnchecked(p) ==
    LET tenantId == parseInt(p) IN
    /\ Ready
    /\ UNCHANGED store
    /\ IF isNaN(tenantId)
       THEN response' = InvalidTenantId("DELETE tenant") /\ UNCHANGED inflight
       ELSE /\ CanAccept
            /\ Await(DeleteTenantRequest(tenantId[1]))

\* Up to and including prisma.tenant.findUnique.
DeleteTenantCheck(p) ==
    LET tenantId == parseInt(p) IN
    /\ Ready
    /\ UNCHANGED store
    /\ IF isNaN(tenantId)
       THEN response' = InvalidTenantId("DELETE tenant") /\ UNCHANGED inflight
       ELSE IF tenantId[1] \notin DOMAIN tenants
       THEN response' = TenantNotFound("DELETE tenant") /\ UNCHANGED inflight
       ELSE /\ CanAccept
            /\ Await(DeleteTenantRequest(tenantId[1]))

\* prisma.tenant.delete: throws P2025 when the row is gone (500).
DeleteTenantDelete(req) ==
    /\ req.op = "DELETE tenant"
    /\ Ready
    /\ Resume(req)
    /\ UNCHANGED <<rooms, nextTenantId>>
    /\ IF req.id \in DOMAIN tenants
       THEN /\ tenants' = RowsExcept(tenants, {req.id})
            /\ response' = Json("DELETE tenant", 200, <<"Tenant deleted successfully">>, 0)
       ELSE /\ UNCHANGED tenants
            /\ response' = Error("DELETE tenant", 500, <<"Failed to delete tenant">>)

\* ---------------------------------------------------- /api/tenants (POST)
\* The Prisma client rejects create({data}) before any SQL is sent when a
\* String column has no value or roomId is not a number.
ClientAcceptsCreate(b) ==
    /\ TenantRequiredColumns \subseteq DOMAIN b
    /\ ~isNaN(Number(b, "roomId"))

\* As ForeignKeyHolds, were the INSERT not checked against rooms.
ForeignKeyUnchecked(roomId) == TRUE

\* tenants_room_id_fkey on INSERT: room_id REFERENCES rooms(id).
ForeignKeyHolds(roomId) == roomId \in DOMAIN rooms

\* The row prisma.tenant.create inserts: email is NULL when the body has
\* none, createdAt @default(now()) and updatedAt are the time of the call.
CreatedRow(b) ==
    [name |-> b["name"], fatherName |-> b["fatherName"],
     villageName |-> b["villageName"], tehsil |-> b["tehsil"],
     policeStation |-> b["policeStation"], district |-> b["district"],
     pincode |-> b["pincode"], state |-> b["state"],
     email |-> IF "email" \in DOMAIN b THEN b["email"] ELSE Null,
     aadharNumber |-> b["aadharNumber"], phoneNumber |-> b["phoneNumber"],
     fatherPhoneNumber |-> b["fatherPhoneNumber"],
     roomId |-> Number(b, "roomId")[1],
     createdAt |-> Now, updatedAt |-> Now]

RoomMissing == Error("POST tenant", 400, <<"The specified room does not exist">>)

CreateFailed == Error("POST tenant", 500, <<"Failed to create tenant: ">>)

\* The handler makes one store call, prisma.tenant.create, and validates
\* nothing itself: P2003 becomes 400, any other error 500.
PostTenant(b) ==
    /\ Ready
    /\ UNCHANGED <<rooms, inflight>>
    /\ IF ~ClientAcceptsCreate(b)
       THEN response' = CreateFailed /\ UNCHANGED <<tenants, nextTenantId>>
       ELSE IF ~ForeignKeyHolds(Number(b, "roomId")[1])
       THEN response' = RoomMissing /\ UNCHANGED <<tenants, nextTenantId>>
       ELSE /\ nextTenantId <= MaxTenants
            /\ Now <= MaxClock
            /\ tenants' = [i \in DOMAIN tenants \cup {nextTenantId} |->
                             IF i = nextTenantId THEN CreatedRow(b) ELSE tenants[i]]
            /\ nextTenantId' = nextTenantId + 1
            /\ response' = TenantJson("POST tenant", 201, nextTenantId)

\* ------------------------------------------------ /api/rooms/[id] (DELETE)
InvalidRoomId(op) == Error(op, 400, <<"Invalid room ID">>)

RoomNotFound(op) == Error(op, 404, <<"Room not found">>)

RoomHasTenants == Error("DELETE room", 400, <<"Cannot delete room with active tenants">>)

RoomDeleted == Json("DELETE room", 200, <<"Room deleted successfully">>, 0)

DeleteRoomRequest(id) == [op |-> "DELETE room", id |-> id]

\* As DeleteRoomRead, without the check of existingRoom.tenants.length.
DeleteRoomReadAnyway(p) ==
    LET roomId == parseInt(p) IN
    /\ Ready
    /\ UNCHANGED store
    /\ IF isNaN(roomId)
       THEN response' = InvalidRoomId("DELETE room") /\ UNCHANGED inflight
       ELSE IF roomId[1] \notin DOMAIN rooms
       THEN response' = RoomNotFound("DELETE room") /\ UNCHANGED inflight
       ELSE /\ CanAccept
            /\ Await(DeleteRoomRequest(roomId[1]))

\* Up to and including prisma.room.findUnique({include: {tenants: true}}).
DeleteRoomRead(p) ==
    LET roomId == parseInt(p) IN
    /\ Ready
    /\ UNCHANGED store
    /\ IF isNaN(roomId)
       THEN response' = InvalidRoomId("DELETE room") /\ UNCHANGED inflight
       ELSE IF roomId[1] \notin DOMAIN rooms
       THEN response' = RoomNotFound("DELETE room") /\ UNCHANGED inflight
       ELSE IF Cardinality(TenantsOf(roomId[1])) > 0
       THEN response' = RoomHasTenants /\ UNCHANGED inflight
       ELSE /\ CanAccept
            /\ Await(DeleteRoomRequest(roomId[1]))

\* As DeleteRestricted, were room_id declared without the foreign key.
DeleteUnrestricted(roomId) == FALSE

\* tenants_room_id_fkey ON DELETE RESTRICT: the DELETE of a referenced room fails.
DeleteRestricted(roomId) == TenantsOf(roomId) # {}

\* prisma.room.delete: throws when the row is gone (P2025) or still
\* referenced (P2003); the catch block reports either as 500.
DeleteRoomDelete(req) ==
    /\ req.op = "DELETE room"
    /\ Ready
    /\ Resume(req)
    /\ UNCHANGED <<tenants, nextTenantId>>
    /\ IF req.id \in DOMAIN rooms /\ ~DeleteRestricted(req.id)
       THEN /\ rooms' = RowsExcept(rooms, {req.id})
            /\ response' = RoomDeleted
       ELSE /\ UNCHANGED rooms
            /\ response' = Error("DELETE room", 500, <<"Failed to delete room">>)

\* ---------------------------------------- /api/rooms/[id]/tenants (DELETE)
RoomEmptied(count) ==
    Json("DELETE room tenants", 200, <<"Room emptied successfully">>, count)

EmptyRoomRequest(id) == [op |-> "DELETE room tenants", id |-> id]

\* As EmptyRoomCheck, without the check that the room exists.
EmptyRoomUnchecked(p) ==
    LET roomId == parseInt(p) IN
    /\ Ready
    /\ UNCHANGED store
    /\ IF isNaN(roomId)
       THEN response' = InvalidRoomId("DELETE room tenants") /\ UNCHANGED inflight
       ELSE /\ CanAccept
            /\ Await(EmptyRoomRequest(roomId[1]))

\* Up to and including prisma.room.findUnique.
EmptyRoomCheck(p) ==
    LET roomId == parseInt(p) IN
    /\ Ready
    /\ UNCHANGED store
    /\ IF isNaN(roomId)
       THEN response' = InvalidRoomId("DELETE room tenants") /\ UNCHANGED inflight
       ELSE IF roomId[1] \notin DOMAIN rooms
       THEN response' = RoomNotFound("DELETE room tenants") /\ UNCHANGED inflight
       ELSE /\ CanAccept
            /\ Await(EmptyRoomRequest(roomId[1]))

\* As EmptyRoomDeleteMany, were deleteMany called without its where clause.
EmptyRoomDeleteAll(req) ==
    /\ req.op = "DELETE room tenants"
    /\ Ready
    /\ Resume(req)
    /\ tenants' = << >>
    /\ response' = RoomEmptied(Cardinality(DOMAIN tenants))
    /\ UNCHANGED <<rooms, nextTenantId>>

\* prisma.tenant.deleteMany({where: {roomId}}): result.count rows deleted.
EmptyRoomDeleteMany(req) ==
    /\ req.op = "DELETE room tenants"
    /\ Ready
    /\ Resume(req)
    /\ tenants' = RowsExcept(tenants, TenantsOf(req.id))
    /\ response' = RoomEmptied(Cardinality(TenantsOf(req.id)))
    /\ UNCHANGED <<rooms, nextTenantId>>

\* --------------------------------------------------------------- listings
\* NextResponse.json(rows): an array of rows, status 200.
ArrayJson(op, ids) == [Json(op, 200, <<"array">>, 0) EXCEPT !.list = ids]

\* The collation of the letters the names of the inputs are made of.
Collation == <<"A", "B">>

CharRank(c) == CHOOSE i \in DOMAIN Collation : Collation[i] = c

\* s < t as the database compares text: at the first position where they
\* differ, or s a proper prefix of t.
RECURSIVE TextLess(_, _)
TextLess(s, t) ==
    IF t = <<>> THEN FALSE
    ELSE IF s = <<>> THEN TRUE
    ELSE IF Head(s) = Head(t) THEN TextLess(Tail(s), Tail(t))
    ELSE CharRank(Head(s)) < CharRank(Head(t))

\* As ByNameAsc, for orderBy: {createdAt: "desc"}.
ByCreatedAtDescInRoom(a, b) == tenants[a].createdAt > tenants[b].createdAt

\* orderBy: {name: "asc"}
ByNameAsc(a, b) == TextLess(tenants[a].name, tenants[b].name)

\* orderBy: {createdAt: "desc"}
ByCreatedAtDesc(a, b) == tenants[a].createdAt > tenants[b].createdAt

\* Whether row a comes before row b under the orderBy of a query.
Precedes(orderBy, a, b) ==
    IF orderBy = "name" THEN ByNameAsc(a, b) ELSE ByCreatedAtDesc(a, b)

\* The orders in which a query may return the rows `ids` under ORDER BY: the
\* arrangements in which no row comes after one it precedes; rows that tie
\* come in either order.
OrderedBy(ids, orderBy) ==
    {seq \in [1..Cardinality(ids) -> ids] :
        /\ \A i, j \in DOMAIN seq : i # j => seq[i] # seq[j]
        /\ \A i, j \in DOMAIN seq : i < j => ~Precedes(orderBy, seq[j], seq[i])}

\* GET /api/tenants: prisma.tenant.findMany, newest first.
GetTenants ==
    /\ Ready
    /\ response' \in {ArrayJson("GET tenants", ids) :
                        ids \in OrderedBy(DOMAIN tenants, "createdAt")}
    /\ UNCHANGED <<store, inflight>>

\* GET /api/rooms/[id]/tenants: prisma.tenant.findMany of the room, by name;
\* the room itself is not looked up.
GetRoomTenants(p) ==
    LET roomId == parseInt(p) IN
    /\ Ready
    /\ IF isNaN(roomId)
       THEN response' = InvalidRoomId("GET room tenants")
       ELSE response' \in {ArrayJson("GET room tenants", ids) :
                              ids \in OrderedBy(TenantsOf(roomId[1]), "name")}
    /\ UNCHANGED <<store, inflight>>

\* --------------------------------------------------- /api/rooms/[id] (GET)
\* NextResponse.json(room) of a row read with findUnique.
RoomJson(op, id) == Json(op, 200, <<"room">>, id)

GetRoom(p) ==
    LET roomId == parseInt(p) IN
    /\ Ready
    /\ response' =
         IF isNaN(roomId) THEN InvalidRoomId("GET room")
         ELSE IF roomId[1] \notin DOMAIN rooms THEN RoomNotFound("GET room")
         ELSE RoomJson("GET room", roomId[1])
    /\ UNCHANGED <<store, inflight>>

\* ------------------------------------------------- /api/rooms/[id] (PATCH)
\* A value of the JSON body: a number, a string or null.
JNumber(n) == [type |-> "number", n |-> n, s |-> <<>>]

JString(s) == [type |-> "string", n |-> 0, s |-> s]

JNull == [type |-> "null", n |-> 0, s |-> <<>>]

\* Number(v) as isNaN and < apply it: null and "" are 0, a string of digits
\* (with a sign) its value, any other string NaN.
ToNumber(v) ==
    IF v.type = "number" THEN <<v.n>>
    ELSE IF v.type = "null" THEN <<0>>
    ELSE IF AllDigits(v.s) THEN <<DecimalValue(v.s)>>
    ELSE IF Len(v.s) > 1 /\ v.s[1] = "-" /\ AllDigits(Tail(v.s))
    THEN <<0 - DecimalValue(Tail(v.s))>>
    ELSE NaN

\* if (v): a key the body carries with a value that is not 0, "" or null.
Truthy(b, key) ==
    /\ key \in DOMAIN b
    /\ b[key].type # "null"
    /\ (b[key].type = "number" => b[key].n # 0)
    /\ (b[key].type = "string" => b[key].s # <<>>)

isLeapYear(y) == (y % 4 = 0 /\ y % 100 # 0) \/ y % 400 = 0

DaysInMonth(y, m) ==
    IF m = 2 THEN (IF isLeapYear(y) THEN 29 ELSE 28)
    ELSE IF m \in {4, 6, 9, 11} THEN 30
    ELSE 31

\* MakeDay of ECMAScript: a month past December moves into the next year, a
\* day past the end of its month into the following month.
RECURSIVE MakeDay(_, _, _)
MakeDay(y, m, d) ==
    IF m > 12 THEN MakeDay(y + 1, m - 12, d)
    ELSE IF d > DaysInMonth(y, m) THEN MakeDay(y, m + 1, d - DaysInMonth(y, m))
    ELSE IF d < 1 THEN (IF m = 1 THEN MakeDay(y - 1, 12, d + 31)
                        ELSE MakeDay(y, m - 1, d + DaysInMonth(y, m - 1)))
    ELSE Date(y, m, d)

\* Invalid Date: getTime() is NaN.
InvalidDate == Date(0, 0, 0)

\* new Date(s) of a string: the date-only form YYYY-MM-DD is UTC midnight of
\* that day (V8 takes a day up to 31 in any month and carries the excess);
\* the other strings of the inputs are no dates.
NewDate(s) ==
    IF /\ Len(s) = 10
       /\ s[5] = "-" /\ s[8] = "-"
       /\ AllDigits(SubSeq(s, 1, 4)) /\ AllDigits(SubSeq(s, 6, 7))
       /\ AllDigits(SubSeq(s, 9, 10))
       /\ DecimalValue(SubSeq(s, 6, 7)) \in 1..12
       /\ DecimalValue(SubSeq(s, 9, 10)) \in 1..31
    THEN MakeDay(DecimalValue(SubSeq(s, 1, 4)), DecimalValue(SubSeq(s, 6, 7)),
                 DecimalValue(SubSeq(s, 9, 10)))
    ELSE InvalidDate

\* The time zone of the server process (TZ), which getMonth and setMonth
\* read: one at UTC, one east and one west of it, none with daylight saving.
TimeZones == {"UTC", "Asia/Kolkata", "America/Bogota"}

\* The local calendar day at UTC midnight, relative to the UTC day.
LocalDayOffset(tz) == IF tz = "America/Bogota" THEN 0 - 1 ELSE 0

\* The local calendar date of a DateTime that is UTC midnight of `date`.
LocalDate(date, tz) == MakeDay(date.y, date.m, date.d + LocalDayOffset(tz))

\* date.getMonth(): the month of the local date, January being 0.
getMonth(date, tz) == LocalDate(date, tz).m - 1

\* date.setMonth(month): the local date with its month replaced (MakeDay
\* carries an overflow), at the same local time of day, back as a UTC date.
setMonth(date, month, tz) ==
    LET local == LocalDate(date, tz)
        moved == MakeDay(local.y, month + 1, local.d)
    IN MakeDay(moved.y, moved.m, moved.d - LocalDayOffset(tz))

\* const copy = new Date(date); copy.setMonth(copy.getMonth() + 11)
PlusElevenMonths(date, tz) == setMonth(date, getMonth(date, tz) + 11, tz)

InvalidRent ==
    Error("PATCH room", 400, <<"Rent amount must be a valid positive number">>)

InvalidPeriod(key) == Error("PATCH room", 400, <<"Invalid date format for ", key>>)

UpdateFailed == Error("PATCH room", 500, <<"Failed to update room">>)

\* The checks PATCH makes on the body before it reads the store, in order;
\* NoResponse when the body passes them all.
ValidateRoomBody(b) ==
    IF "rentAmount" \in DOMAIN b
         /\ (isNaN(ToNumber(b["rentAmount"])) \/ ToNumber(b["rentAmount"])[1] < 0)
    THEN InvalidRent
    ELSE IF Truthy(b, "periodFrom") /\ NewDate(b["periodFrom"].s) = InvalidDate
    THEN InvalidPeriod("periodFrom")
    ELSE IF Truthy(b, "periodTo") /\ NewDate(b["periodTo"].s) = InvalidDate
    THEN InvalidPeriod("periodTo")
    ELSE NoResponse

\* updateFields and updateValues: the columns the UPDATE sets, with their
\* values (periodToDate is derived when only periodFrom is given).
UpdateFields(b, tz) ==
    LET periodFromDate == NewDate(b["periodFrom"].s)
        set1 == IF "rentAmount" \in DOMAIN b
                THEN [rentAmount |-> b["rentAmount"]] ELSE << >>
        set2 == IF Truthy(b, "periodFrom")
                THEN With(set1, "periodFrom", periodFromDate) ELSE set1
    IN IF Truthy(b, "periodTo")
       THEN With(set2, "periodTo", NewDate(b["periodTo"].s))
       ELSE IF Truthy(b, "periodFrom")
       THEN With(set2, "periodTo", PlusElevenMonths(periodFromDate, tz))
       ELSE set2

PatchRoomRequest(id, stage, set) ==
    [op |-> "PATCH room", id |-> id, stage |-> stage, set |-> set]

\* As PatchRoomCheck, without the check of existingRoom.
PatchRoomUnchecked(p, b, tz) ==
    LET roomId == parseInt(p) IN
    /\ Ready
    /\ UNCHANGED store
    /\ IF isNaN(roomId)
       THEN response' = InvalidRoomId("PATCH room") /\ UNCHANGED inflight
       ELSE IF ValidateRoomBody(b) # NoResponse
       THEN response' = ValidateRoomBody(b) /\ UNCHANGED inflight
       ELSE /\ CanAccept
            /\ Await(PatchRoomRequest(roomId[1],
                                      IF DOMAIN UpdateFields(b, tz) # {}
                                      THEN "update" ELSE "read",
                                      UpdateFields(b, tz)))

\* Up to and including the first prisma.room.findUnique.  The next store
\* call is the UPDATE when there is a column to set, the re-read otherwise.
PatchRoomCheck(p, b, tz) ==
    LET roomId == parseInt(p) IN
    /\ Ready
    /\ UNCHANGED store
    /\ IF isNaN(roomId)
       THEN response' = InvalidRoomId("PATCH room") /\ UNCHANGED inflight
       ELSE IF ValidateRoomBody(b) # NoResponse
       THEN response' = ValidateRoomBody(b) /\ UNCHANGED inflight
       ELSE IF roomId[1] \notin DOMAIN rooms
       THEN response' = RoomNotFound("PATCH room") /\ UNCHANGED inflight
       ELSE /\ CanAccept
            /\ Await(PatchRoomRequest(roomId[1],
                                      IF DOMAIN UpdateFields(b, tz) # {}
                                      THEN "update" ELSE "read",
                                      UpdateFields(b, tz)))

\* As RoomAfterUpdate, were the UPDATE to set every column it can.
RoomOverwritten(row, set) ==
    [row EXCEPT
       !.rentAmount = IF "rentAmount" \in DOMAIN set THEN set["rentAmount"].n ELSE 0,
       !.periodFrom = IF "periodFrom" \in DOMAIN set THEN set["periodFrom"] ELSE SeedDate,
       !.periodTo = IF "periodTo" \in DOMAIN set THEN set["periodTo"] ELSE SeedDate]

\* The columns of a row the raw UPDATE sets; updated_at is not among them.
RoomAfterUpdate(row, set) ==
    [row EXCEPT
       !.rentAmount = IF "rentAmount" \in DOMAIN set THEN set["rentAmount"].n ELSE @,
       !.periodFrom = IF "periodFrom" \in DOMAIN set THEN set["periodFrom"] ELSE @,
       !.periodTo = IF "periodTo" \in DOMAIN set THEN set["periodTo"] ELSE @]

\* rent_amount INTEGER NOT NULL takes a number; null or a string parameter
\* makes the statement fail.
DatabaseAccepts(set) ==
    "rentAmount" \in DOMAIN set => set["rentAmount"].type = "number"

\* prisma.$executeRawUnsafe(UPDATE "rooms" SET ... WHERE "id" = ...): no row
\* is updated when the room is gone, which is no error; an error of the
\* statement is reported as 500.
PatchRoomUpdate(req) ==
    /\ req.op = "PATCH room"
    /\ req.stage = "update"
    /\ Ready
    /\ UNCHANGED <<tenants, nextTenantId>>
    /\ IF ~DatabaseAccepts(req.set)
       THEN /\ Resume(req)
            /\ response' = UpdateFailed
            /\ UNCHANGED rooms
       ELSE /\ inflight' = (inflight (-) SetToBag({req}))
                              (+) SetToBag({PatchRoomRequest(req.id, "read", req.set)})
            /\ response' = NoResponse
            /\ rooms' = [r \in DOMAIN rooms |->
                           IF r = req.id THEN RoomAfterUpdate(rooms[r], req.set)
                           ELSE rooms[r]]

\* NextResponse.json(room) of the re-read when the row is gone: null.
NullJson(op) == Json(op, 200, <<"null">>, 0)

\* The second prisma.room.findUnique and the response.
PatchRoomReread(req) ==
    /\ req.op = "PATCH room"
    /\ req.stage = "read"
    /\ Ready
    /\ Resume(req)
    /\ UNCHANGED store
    /\ response' = IF req.id \in DOMAIN rooms THEN RoomJson("PATCH room", req.id)
                   ELSE NullJson("PATCH room")

\* ----------------------------------------------------------- specification
Pending == BagToSet(inflight)

\* A request arrives and runs up to its first store call (or returns at once).
Arrive(tenantParams, roomParams, patchBodies, postBodies) ==
    \/ \E p \in tenantParams : GetTenant(p)
    \/ \E p \in tenantParams, b \in patchBodies : PatchTenantCheck(p, b)
    \/ \E p \in tenantParams : DeleteTenantCheck(p)
    \/ \E d \in postBodies : \E b \in WithRoomId(d) : PostTenant(b)
    \/ \E p \in roomParams : DeleteRoomRead(p)
    \/ \E p \in roomParams : EmptyRoomCheck(p)
    \/ GetTenants
    \/ \E p \in roomParams : GetRoomTenants(p)
    \/ \E p \in roomParams : GetRoom(p)

\* A request that awaited its first store call makes its second.
Continue ==
    \/ \E req \in Pending : PatchTenantUpdate(req)
    \/ \E req \in Pending : DeleteTenantDelete(req)
    \/ \E req \in Pending : DeleteRoomDelete(req)
    \/ \E req \in Pending : EmptyRoomDeleteMany(req)

\* The service as it runs: requests interleave at every awaited store call.
\* The bodies are the ones that reach the store.
Next ==
    \/ Arrive(IdParams(MaxTenants), IdParams(NumRooms), {ValidB}, StoredBodies)
         /\ ServiceOnly
    \/ Continue /\ ServiceOnly
    \/ Deliver /\ ServiceOnly

Spec == Init /\ [][Next]_vars

\* The service with one request at a time, each served to its response
\* before the next arrives, with every body of Bodies.
NextSerial ==
    \/ inflight = EmptyBag
         /\ Arrive(IdParams(MaxTenants), IdParams(NumRooms), Bodies, PostBodies)
         /\ ServiceOnly
    \/ Continue /\ ServiceOnly
    \/ Deliver /\ ServiceOnly

SpecSerial == Init /\ [][NextSerial]_vars

\* A date in the form the registration page sends it: YYYY-MM-DD.
TwoDigits(n) == IF n < 10 THEN <<"0">> \o Str(n) ELSE Str(n)

DateString(y, m, d) ==
    JString(TwoDigits(y \div 100) \o TwoDigits(y % 100) \o <<"-">>
              \o TwoDigits(m) \o <<"-">> \o TwoDigits(d))

\* Period starts: mid-month, a 31st whose target month has 31 days, a 1st,
\* and a 31st whose target month is February.
PeriodStarts ==
    {DateString(2024, 1, 15), DateString(2024, 1, 31),
     DateString(2024, 3, 1), DateString(2024, 3, 31)}

ExplicitPeriodTo == DateString(2024, 6, 30)

\* Bodies of PATCH /api/rooms/[id] that pass its checks.
AcceptedRoomBodies ==
    {[rentAmount |-> JNumber(5)], [rentAmount |-> JNumber(0)], << >>,
     [periodTo |-> ExplicitPeriodTo],
     [periodFrom |-> DateString(2024, 1, 15), periodTo |-> ExplicitPeriodTo],
     [rentAmount |-> JNumber(5), periodFrom |-> DateString(2024, 1, 15)],
     [periodFrom |-> JString(<<>>)],
     [rentAmount |-> JNull]}
        \cup {[periodFrom |-> d] : d \in PeriodStarts}

\* Bodies with a rent that is negative or no number, or a period string
\* that is no date.
RejectedRoomBodies ==
    {[rentAmount |-> JNumber(0 - 1)],
     [rentAmount |-> JString(<<"a", "b", "c">>)],
     [periodFrom |-> DateString(2024, 13, 1)],
     [periodTo |-> JString(<<"a", "b", "c">>)],
     [rentAmount |-> JNumber(5), periodFrom |-> DateString(2024, 13, 1)],
     [periodFrom |-> DateString(2024, 1, 15), periodTo |-> JString(<<"a", "b", "c">>)]}

RoomBodies == AcceptedRoomBodies \cup RejectedRoomBodies

\* The [id] of a room update: the first room, an id that is no room, and a
\* string parseInt rejects.
PatchRoomParams == {Str(1), Str(NumRooms + 1), <<"x">>}

\* Room update, one request at a time, next to tenant create and room
\* delete: the first room is updated, the others are there to be left alone.
NextRooms ==
    \/ inflight = EmptyBag
         /\ \E p \in PatchRoomParams, b \in RoomBodies, tz \in TimeZones :
               PatchRoomCheck(p, b, tz)
         /\ ServiceOnly
    \/ ServiceOnly /\ \E req \in Pending : PatchRoomUpdate(req)
    \/ ServiceOnly /\ \E req \in Pending : PatchRoomReread(req)
    \/ inflight = EmptyBag
         /\ \E i \in 1..NumRooms : PostTenant(With(ValidA, "roomId", Str(i)))
         /\ ServiceOnly
    \/ inflight = EmptyBag /\ ServiceOnly
         /\ \E p \in IdParams(NumRooms) : DeleteRoomRead(p)
    \/ ServiceOnly /\ \E req \in Pending : DeleteRoomDelete(req)
    \/ Deliver /\ ServiceOnly

SpecRooms == Init /\ [][NextRooms]_vars

\* Bodies of PATCH /api/tenants/[id] that name a room: the second room, or
\* one that is not stored; and a body that names none.
MoveBodies ==
    {With(ValidB, "roomId", Str(2)), With(ValidB, "roomId", Str(NumRooms + 1)), ValidA}

\* One request at a time, tenants created from one body and updated with
\* bodies that name another room.
NextMoves ==
    \/ inflight = EmptyBag
         /\ Arrive(IdParams(MaxTenants), IdParams(NumRooms), MoveBodies, {ValidA})
         /\ ServiceOnly
    \/ Continue /\ ServiceOnly
    \/ Deliver /\ ServiceOnly

SpecMoves == Init /\ [][NextMoves]_vars

\* Bodies that set the period: each of a start in January or July and an
\* end in December 2023 or June 2024, given or not.
PeriodBodies ==
    {froms @@ tos :
        froms \in {<< >>} \cup {[periodFrom |-> d] :
                      d \in {DateString(2024, 1, 15), DateString(2024, 7, 1)}},
        tos \in {<< >>} \cup {[periodTo |-> d] :
                      d \in {DateString(2023, 12, 31), ExplicitPeriodTo}}}

\* PATCHes of the periods of the rooms, one request at a time.
NextPeriods ==
    \/ inflight = EmptyBag /\ ServiceOnly
         /\ \E p \in IdParams(NumRooms), b \in PeriodBodies, tz \in TimeZones :
               PatchRoomCheck(p, b, tz)
    \/ ServiceOnly /\ \E req \in Pending : PatchRoomUpdate(req)
    \/ ServiceOnly /\ \E req \in Pending : PatchRoomReread(req)
    \/ Deliver /\ ServiceOnly

SpecPeriods == Init /\ [][NextPeriods]_vars

\* Bodies of the PATCHes that run next to a DELETE of the room: a rent, a
\* period start, nothing.
RaceRoomBodies ==
    {[rentAmount |-> JNumber(5)], [periodFrom |-> DateString(2024, 1, 15)], << >>}

\* PATCH and DELETE of rooms, their store calls interleaved.
NextRoomRace ==
    \/ ServiceOnly
         /\ \E p \in IdParams(NumRooms), b \in RaceRoomBodies, tz \in TimeZones :
               PatchRoomCheck(p, b, tz)
    \/ ServiceOnly /\ \E req \in Pending : PatchRoomUpdate(req)
    \/ ServiceOnly /\ \E req \in Pending : PatchRoomReread(req)
    \/ ServiceOnly /\ \E p \in IdParams(NumRooms) : DeleteRoomRead(p)
    \/ ServiceOnly /\ \E req \in Pending : DeleteRoomDelete(req)
    \/ Deliver /\ ServiceOnly

SpecRoomRace == Init /\ [][NextRoomRace]_vars

\* --------------------------------------------- functions of the two pages
IsDigit(c) == c \in DigitChars

\* As StripNonDigits, for value.replace(/\s/g, "") (white space only).
StripSpaces(value) == SelectSeq(value, LAMBDA c : c # " ")

\* value.replace(/\D/g, "")
StripNonDigits(value) == SelectSeq(value, IsDigit)

isValidPhoneNumber(value) == Len(StripNonDigits(value)) = 10

isValidAadharNumber(value) == Len(StripNonDigits(value)) = 12

isValidPincode(value) == Len(StripNonDigits(value)) = 6

\* name.startsWith(prefix), for a prefix of one character.
startsWith(name, prefix) == Len(name) >= 1 /\ name[1] = prefix

\* parseInt(name.replace(/\D/g, "")) || 0
RoomNumber(name) ==
    LET n == parseInt(StripNonDigits(name))
    IN IF isNaN(n) THEN 0 ELSE n[1]

\* As CompareRooms, without the lines that put F before S.
CompareGroundOnly(a, b) ==
    IF startsWith(a, "G") /\ ~startsWith(b, "G") THEN 0 - 1
    ELSE IF ~startsWith(a, "G") /\ startsWith(b, "G") THEN 1
    ELSE RoomNumber(a) - RoomNumber(b)

\* The comparator of roomsWithTenants.sort, on the names of the two rooms.
CompareRooms(a, b) ==
    IF startsWith(a, "G") /\ ~startsWith(b, "G") THEN 0 - 1
    ELSE IF ~startsWith(a, "G") /\ startsWith(b, "G") THEN 1
    ELSE IF startsWith(a, "F") /\ startsWith(b, "S") THEN 0 - 1
    ELSE IF startsWith(a, "S") /\ startsWith(b, "F") THEN 1
    ELSE RoomNumber(a) - RoomNumber(b)

\* Array.prototype.sort of V8 on an array shorter than 64: TimSort takes the
\* run the array starts with (reversed when it is strictly descending) and
\* places each later element in it by binary insertion.
RECURSIVE RunEnd(_, _, _)
RunEnd(a, descending, idx) ==
    IF idx > Len(a) THEN idx - 1
    ELSE IF descending = (CompareRooms(a[idx], a[idx - 1]) < 0)
    THEN RunEnd(a, descending, idx + 1)
    ELSE idx - 1

Reversed(a) == [i \in 1..Len(a) |-> a[Len(a) + 1 - i]]

\* The position binary search gives `pivot` in the sorted a[left..right-1].
RECURSIVE InsertionPoint(_, _, _, _)
InsertionPoint(a, pivot, left, right) ==
    IF left >= right THEN left
    ELSE LET mid == left + ((right - left) \div 2) IN
         IF CompareRooms(pivot, a[mid]) < 0
         THEN InsertionPoint(a, pivot, left, mid)
         ELSE InsertionPoint(a, pivot, mid + 1, right)

RECURSIVE BinaryInsertionSort(_, _)
BinaryInsertionSort(a, start) ==
    IF start > Len(a) THEN a
    ELSE LET at == InsertionPoint(a, a[start], 1, start)
             moved == SubSeq(a, 1, at - 1) \o <<a[start]>>
                        \o SubSeq(a, at, start - 1) \o SubSeq(a, start + 1, Len(a))
         IN BinaryInsertionSort(moved, start + 1)

SortRooms(a) ==
    IF Len(a) < 2 THEN a
    ELSE LET descending == CompareRooms(a[2], a[1]) < 0
             end == RunEnd(a, descending, 3)
             run == IF descending THEN Reversed(SubSeq(a, 1, end))
                    ELSE SubSeq(a, 1, end)
         IN BinaryInsertionSort(run \o SubSeq(a, end + 1, Len(a)), end + 1)

\* A string of n characters with no digit at the positions of `others`.
Mixed(n, others) ==
    [i \in 1..n |-> IF i \in others THEN <<"-", " ", "a">>[(i % 3) + 1]
                    ELSE DigitSeq[(i % 10) + 1]]

ValidatorInputs == UNION {{Mixed(n, others) : others \in SUBSET (1..n)} : n \in 0..MaxInput}

\* A call that has its argument and has not run yet.
Call(arg) == [fn |-> "", arg |-> arg]

\* `called` runs as function fn and returns `value`.
Return(fn, value) ==
    /\ called.fn = ""
    /\ called' = [called EXCEPT !.fn = fn]
    /\ returned' = value
    /\ UNCHANGED <<store, inflight, response, page, tablePage>>

CallValidPhoneNumber ==
    Return("isValidPhoneNumber", isValidPhoneNumber(called.arg))

CallValidAadharNumber ==
    Return("isValidAadharNumber", isValidAadharNumber(called.arg))

CallValidPincode ==
    Return("isValidPincode", isValidPincode(called.arg))

InitValidators ==
    /\ ServiceInit /\ PageInit /\ TableInit
    /\ called \in {Call(value) : value \in ValidatorInputs}
    /\ returned = FALSE

\* The validators of the two pages, called with any string.
NextValidators ==
    \/ CallValidPhoneNumber
    \/ CallValidAadharNumber
    \/ CallValidPincode

SpecValidators == InitValidators /\ [][NextValidators]_vars

\* Names of rooms: the seeded ones begin with G, F or S.
RoomNames ==
    {<<"G", "1">>, <<"G", "2">>, <<"F", "1">>, <<"F", "2">>, <<"F", "1", "0">>,
     <<"S", "1">>, <<"S", "2">>, <<"F">>, SeedRoomName(1)}

\* The list of section 4.4 of the specification.
ListOfFive == <<(<<"F", "2">>), (<<"G", "1">>), (<<"S", "1">>), (<<"F", "1", "0">>), (<<"F", "1">>)>>

SortInputs ==
    {ListOfFive} \cup UNION {[1..n -> RoomNames] : n \in 0..MaxSorted}

InitSort ==
    /\ ServiceInit /\ PageInit /\ TableInit
    /\ called \in {Call(names) : names \in SortInputs}
    /\ returned = FALSE

\* fetchRoomsWithTenants sorts the rooms it fetched, here by their names.
CallSortRooms == Return("sort", SortRooms(called.arg))

NextSort == CallSortRooms

SpecSort == InitSort /\ [][NextSort]_vars

\* Names of rooms of any kind: on the three floors, and names that begin
\* with another letter, with a number or without.
AnyRoomNames ==
    {<<"G", "2">>, <<"F", "5">>, <<"F", "1">>, <<"S", "1">>, <<"A", "3">>,
     <<"O", "f", "f", "i", "c", "e">>}

InitSortAny ==
    /\ ServiceInit /\ PageInit /\ TableInit
    /\ called \in {Call(names) : names \in UNION {[1..n -> AnyRoomNames] : n \in 0..MaxSorted}}
    /\ returned = FALSE

\* fetchRoomsWithTenants sorts rooms with names of any kind.
NextSortAny == CallSortRooms

SpecSortAny == InitSortAny /\ [][NextSortAny]_vars

\* ------------------------------------------- app/tenants/page.tsx (submit)
\* value.replace(/\s/g, "")
unformatAadharNumber(value) == SelectSeq(value, LAMBDA c : c # " ")

\* value.trim()
RECURSIVE trim(_)
trim(value) ==
    IF value = <<>> THEN value
    ELSE IF Head(value) = " " THEN trim(Tail(value))
    ELSE IF value[Len(value)] = " " THEN trim(SubSeq(value, 1, Len(value) - 1))
    ELSE value

\* /^\d{4}-\d{2}-\d{2}$/.test(value)
MatchesDateShape(value) ==
    /\ Len(value) = 10
    /\ value[5] = "-" /\ value[8] = "-"
    /\ AllDigits(SubSeq(value, 1, 4)) /\ AllDigits(SubSeq(value, 6, 7))
    /\ AllDigits(SubSeq(value, 9, 10))

\* response.ok
Ok(r) == r.status >= 200 /\ r.status <= 299

FormFields ==
    <<"name", "fatherName", "villageName", "tehsil", "policeStation", "district",
      "pincode", "state", "aadharNumber", "phoneNumber", "fatherPhoneNumber">>

\* The message of the first check a form fails, <<>> when it passes them all.
FormError(form, i) ==
    IF \E k \in DOMAIN FormFields : form[FormFields[k]] = <<>>
    THEN <<"Please fill all required fields for Tenant ", Str(i)>>
    ELSE IF ~isValidPhoneNumber(form["phoneNumber"])
    THEN <<"Phone number for Tenant ", Str(i), " must be 10 digits">>
    ELSE IF ~isValidPhoneNumber(form["fatherPhoneNumber"])
    THEN <<"Father's phone number for Tenant ", Str(i), " must be 10 digits">>
    ELSE IF ~isValidAadharNumber(form["aadharNumber"])
    THEN <<"Aadhar number for Tenant ", Str(i), " must be 12 digits">>
    ELSE IF ~isValidPincode(form["pincode"])
    THEN <<"Pincode for Tenant ", Str(i), " must be 6 digits">>
    ELSE <<>>

\* The checks handleSubmit makes before setSubmitting(true), in order: the
\* message it shows before it returns, <<>> when they all pass.
ValidationError ==
    LET rent == ToNumber(JString(rentAmount))
        failing == {i \in DOMAIN tenantForms : FormError(tenantForms[i], i) # <<>>}
        first == CHOOSE i \in failing : \A j \in failing : i <= j
    IN IF selectedRoom = 0 THEN <<"Please select a room">>
       ELSE IF rentAmount = <<>> \/ isNaN(rent) \/ rent[1] < 0
       THEN <<"Please enter a valid rent amount">>
       ELSE IF failing # {} THEN FormError(tenantForms[first], first)
       ELSE <<>>

InvalidDateFormat == <<"Invalid date format. Please use YYYY-MM-DD format.">>

Fetch(op, i) == [op |-> op, i |-> i]

\* The body of the PATCH: {rentAmount: Number(rentAmount), periodFrom}.
SubmitRoomBody ==
    [rentAmount |-> JNumber(ToNumber(JString(rentAmount))[1]),
     periodFrom |-> JString(trim(periodFrom))]

\* The body of the POST for a form: the form with its Aadhar number
\* unformatted and the id of the selected room.
SubmitTenantBody(form) ==
    With(With(form, "aadharNumber", unformatAadharNumber(form["aadharNumber"])),
         "roomId", Str(selectedRoom))

\* As SubmitFailed, were the catch block to show nothing.
SubmitFailedSilently(message) ==
    /\ error' = <<>>
    /\ submitting' = FALSE
    /\ pc' = "idle"

\* catch: setError(error.message); finally: setSubmitting(false).
SubmitFailed(message) ==
    /\ error' = message
    /\ submitting' = FALSE
    /\ pc' = "idle"

\* handleSubmit up to its first await: the checks, and the PATCH of the room.
HandleSubmit ==
    /\ pc = "idle"
    /\ UNCHANGED <<store, inflight, response, calls, tablePage>>
    /\ UNCHANGED <<selectedRoom, tenantForms, rentAmount, periodFrom, shownTenants>>
    /\ roomResponse' = NoResponse
    /\ responses' = << >>
    /\ submittedForms' = tenantForms
    /\ IF ValidationError # <<>>
       THEN /\ error' = ValidationError
            /\ UNCHANGED <<success, submitting, pc, wire>>
       ELSE IF ~MatchesDateShape(trim(periodFrom))
       THEN /\ SubmitFailed(InvalidDateFormat)
            /\ success' = <<>>
            /\ UNCHANGED wire
       ELSE /\ submitting' = TRUE
            /\ error' = <<>>
            /\ success' = <<>>
            /\ pc' = "room"
            /\ wire' = wire \cup {Fetch("PATCH room", 0)}

\* The page, except the fields named.
PageKeeps(changed) ==
    /\ IF "selectedRoom" \in changed THEN TRUE ELSE UNCHANGED selectedRoom
    /\ IF "tenantForms" \in changed THEN TRUE ELSE UNCHANGED tenantForms
    /\ IF "submittedForms" \in changed THEN TRUE ELSE UNCHANGED submittedForms
    /\ IF "rentAmount" \in changed THEN TRUE ELSE UNCHANGED rentAmount
    /\ IF "periodFrom" \in changed THEN TRUE ELSE UNCHANGED periodFrom
    /\ IF "error" \in changed THEN TRUE ELSE UNCHANGED error
    /\ IF "success" \in changed THEN TRUE ELSE UNCHANGED success
    /\ IF "submitting" \in changed THEN TRUE ELSE UNCHANGED submitting
    /\ IF "shownTenants" \in changed THEN TRUE ELSE UNCHANGED shownTenants
    /\ IF "pc" \in changed THEN TRUE ELSE UNCHANGED pc
    /\ IF "wire" \in changed THEN TRUE ELSE UNCHANGED wire
    /\ IF "roomResponse" \in changed THEN TRUE ELSE UNCHANGED roomResponse
    /\ IF "responses" \in changed THEN TRUE ELSE UNCHANGED responses

\* The server takes the PATCH of the page and runs it to its first store call.
TakeRoomUpdate ==
    /\ Fetch("PATCH room", 0) \in wire
    /\ \E tz \in TimeZones : PatchRoomCheck(Str(selectedRoom), SubmitRoomBody, tz)
    /\ wire' = wire \ {Fetch("PATCH room", 0)}
    /\ roomResponse' = response'
    /\ PageKeeps({"wire", "roomResponse"})
    /\ UNCHANGED <<calls, tablePage>>

\* The PATCH of the page makes its next store call.
ContinueRoomUpdate ==
    /\ \E req \in Pending : PatchRoomUpdate(req) \/ PatchRoomReread(req)
    /\ roomResponse' = response'
    /\ PageKeeps({"roomResponse"})
    /\ UNCHANGED <<calls, tablePage>>

\* As AfterRoomUpdate, were the response of the PATCH not looked at.
AfterRoomUpdateUnchecked ==
    /\ pc = "room"
    /\ roomResponse # NoResponse
    /\ UNCHANGED <<store, inflight, response, calls, tablePage>>
    /\ pc' = "tenants"
    /\ wire' = wire \cup {Fetch("POST tenant", i) : i \in DOMAIN submittedForms}
    /\ responses' = [i \in DOMAIN submittedForms |-> NoResponse]
    /\ PageKeeps({"pc", "wire", "responses"})

\* handleSubmit after `await fetch` of the PATCH: it throws when the
\* response is not ok, else sends one POST per form.
AfterRoomUpdate ==
    /\ pc = "room"
    /\ roomResponse # NoResponse
    /\ UNCHANGED <<store, inflight, response, calls, tablePage>>
    /\ IF ~Ok(roomResponse)
       THEN /\ SubmitFailed(roomResponse.text)
            /\ PageKeeps({"error", "submitting", "pc"})
       ELSE /\ pc' = "tenants"
            /\ wire' = wire \cup {Fetch("POST tenant", i) : i \in DOMAIN submittedForms}
            /\ responses' = [i \in DOMAIN submittedForms |-> NoResponse]
            /\ PageKeeps({"pc", "wire", "responses"})

\* prisma.tenant.create fails for a reason other than P2002 or P2003 (the
\* database cannot be reached): the catch block answers 500.
PostTenantStoreError(b) ==
    /\ Ready
    /\ response' = CreateFailed
    /\ UNCHANGED <<store, inflight>>

\* The server takes one of the POSTs of the page.
TakeCreate ==
    \E i \in DOMAIN submittedForms :
        /\ Fetch("POST tenant", i) \in wire
        /\ \/ PostTenant(SubmitTenantBody(submittedForms[i]))
           \/ PostTenantStoreError(SubmitTenantBody(submittedForms[i]))
        /\ wire' = wire \ {Fetch("POST tenant", i)}
        /\ responses' = [responses EXCEPT ![i] = response']
        /\ PageKeeps({"wire", "responses"})
        /\ UNCHANGED <<calls, tablePage>>

\* responses.find((response) => !response.ok)
FirstFailure ==
    LET failed == {i \in DOMAIN responses : ~Ok(responses[i])}
    IN responses[CHOOSE i \in failed : \A j \in failed : i <= j]

\* handleSubmit after Promise.all: with every response ok it shows the
\* success message and fetches the tenants of the room, else it throws the
\* error of the first response that is not ok.
AfterCreates ==
    /\ pc = "tenants"
    /\ \A i \in DOMAIN responses : responses[i] # NoResponse
    /\ UNCHANGED <<store, inflight, response, calls, tablePage>>
    /\ IF \A i \in DOMAIN responses : Ok(responses[i])
       THEN /\ success' = <<"Tenants added successfully!">>
            /\ pc' = "refresh tenants"
            /\ wire' = wire \cup {Fetch("GET room tenants", 0)}
            /\ PageKeeps({"success", "pc", "wire"})
       ELSE /\ SubmitFailed(FirstFailure.text)
            /\ PageKeeps({"error", "submitting", "pc"})

\* The listing arrives: setTenants(data), then the fetch of the room.
RefreshTenants ==
    /\ pc = "refresh tenants"
    /\ Fetch("GET room tenants", 0) \in wire
    /\ GetRoomTenants(Str(selectedRoom))
    /\ shownTenants' = IF Ok(response') THEN response'.list ELSE shownTenants
    /\ pc' = "refresh room"
    /\ wire' = (wire \ {Fetch("GET room tenants", 0)}) \cup {Fetch("GET room", 0)}
    /\ PageKeeps({"shownTenants", "pc", "wire"})
    /\ UNCHANGED <<calls, tablePage>>

\* The room arrives: setSelectedRoom(updatedRoom), whose effects copy its
\* rent and period start into the fields and fetch its tenants again; the
\* forms are reset to one empty form and the submission ends.
RefreshRoom ==
    /\ pc = "refresh room"
    /\ Fetch("GET room", 0) \in wire
    /\ GetRoom(Str(selectedRoom))
    /\ IF Ok(response')
       THEN /\ rentAmount' = Str(rooms[selectedRoom].rentAmount)
            /\ periodFrom' = DateString(rooms[selectedRoom].periodFrom.y,
                                        rooms[selectedRoom].periodFrom.m,
                                        rooms[selectedRoom].periodFrom.d).s
            /\ wire' = (wire \ {Fetch("GET room", 0)}) \cup {Fetch("GET room tenants", 1)}
       ELSE /\ UNCHANGED <<rentAmount, periodFrom>>
            /\ wire' = wire \ {Fetch("GET room", 0)}
    /\ tenantForms' = <<EmptyTenantForm>>
    /\ submitting' = FALSE
    /\ pc' = "idle"
    /\ PageKeeps({"rentAmount", "periodFrom", "wire", "tenantForms", "submitting", "pc"})
    /\ UNCHANGED <<calls, tablePage>>

\* The fetch of the effect on selectedRoom: setTenants(data).
EffectFetchTenants ==
    /\ Fetch("GET room tenants", 1) \in wire
    /\ GetRoomTenants(Str(selectedRoom))
    /\ shownTenants' = IF Ok(response') THEN response'.list ELSE shownTenants
    /\ wire' = wire \ {Fetch("GET room tenants", 1)}
    /\ PageKeeps({"shownTenants", "wire"})
    /\ UNCHANGED <<calls, tablePage>>

\* A form as the user filled it in: the Aadhar number is shown in blocks.
FormOf(b) ==
    [k \in DOMAIN EmptyTenantForm |->
        IF k = "aadharNumber" THEN FormattedAadhar
        ELSE IF k \in DOMAIN b THEN b[k] ELSE <<>>]

\* The lists of forms submitted: one tenant, two tenants, a second form
\* with a 9-digit phone number, a form left empty.
SubmittedForms ==
    {<<FormOf(ValidA)>>, <<FormOf(ValidA), FormOf(ValidB)>>,
     <<FormOf(ValidA), FormOf(With(ValidA, "phoneNumber", Digits(9)))>>,
     <<EmptyTenantForm>>}

\* The page with a room selected or not and its fields filled in.
InitSubmit ==
    /\ ServiceInit /\ CallsInit /\ TableInit
    /\ selectedRoom \in {0, 1}
    /\ tenantForms \in SubmittedForms
    /\ submittedForms = <<>>
    /\ rentAmount \in {<<"5">>, <<>>}
    /\ periodFrom \in {DateString(2024, 1, 15).s, <<" ">> \o DateString(2024, 1, 15).s,
                       <<"1", "5", "/", "0", "1", "/", "2", "0", "2", "4">>}
    /\ error = <<>> /\ success = <<>> /\ submitting = FALSE
    /\ shownTenants = <<>>
    /\ pc = "idle" /\ wire = {}
    /\ roomResponse = NoResponse /\ responses = << >>

\* One registration page submitting, next to another client that deletes
\* rooms.
NextSubmit ==
    \/ HandleSubmit
    \/ TakeRoomUpdate
    \/ ContinueRoomUpdate
    \/ AfterRoomUpdate
    \/ TakeCreate
    \/ AfterCreates
    \/ RefreshTenants
    \/ RefreshRoom
    \/ EffectFetchTenants
    \/ ServiceOnly /\ \E p \in IdParams(NumRooms) : DeleteRoomRead(p)
    \/ ServiceOnly /\ \E req \in Pending : DeleteRoomDelete(req)
    \/ Deliver /\ ServiceOnly

SpecSubmit == InitSubmit /\ [][NextSubmit]_vars

\* ---------------------------------------- app/tenants/page.tsx (Aadhar)
\* parts.join(" ")
RECURSIVE join(_)
join(parts) ==
    IF parts = <<>> THEN <<>>
    ELSE IF Len(parts) = 1 THEN parts[1]
    ELSE parts[1] \o <<" ">> \o join(Tail(parts))

\* value.substring(from, to), positions counted from 0, to past the end
\* allowed.
substring(value, from, to) ==
    SubSeq(value, from + 1, IF to < Len(value) THEN to ELSE Len(value))

\* As formatAadharNumber, were the loop to run over all the digits.
FormatAllDigits(value) ==
    LET cleanedValue == StripNonDigits(value)
        count == (Len(cleanedValue) + 3) \div 4
    IN join([k \in 1..count |-> substring(cleanedValue, 4 * (k - 1), 4 * k)])

\* formatAadharNumber: the digits of the value in blocks of 4, from the
\* positions 0, 4 and 8.
formatAadharNumber(value) ==
    LET cleanedValue == StripNonDigits(value)
        starts == {i \in {0, 4, 8} : i < Len(cleanedValue)}
    IN join([k \in 1..Cardinality(starts) |->
                substring(cleanedValue, 4 * (k - 1), 4 * k)])

CallFormatAadharNumber ==
    Return("formatAadharNumber", formatAadharNumber(called.arg))

\* unformatAadharNumber is given what formatAadharNumber returned.
CallUnformatAadharNumber ==
    /\ called.fn = "formatAadharNumber"
    /\ called' = [called EXCEPT !.fn = "unformatAadharNumber"]
    /\ returned' = unformatAadharNumber(returned)
    /\ UNCHANGED <<store, inflight, response, page, tablePage>>

InitAadhar ==
    /\ ServiceInit /\ PageInit /\ TableInit
    /\ called \in {Call(value) : value \in ValidatorInputs}
    /\ returned = <<>>

\* An Aadhar number typed into a form is formatted, and unformatted when the
\* form is sent.
NextAadhar ==
    \/ CallFormatAadharNumber
    \/ CallUnformatAadharNumber

SpecAadhar == InitAadhar /\ [][NextAadhar]_vars

\* --------------------------------------- app/tenants/table/page.tsx (modal)
\* The table page, except the fields named.
TableKeeps(changed) ==
    /\ IF "isModalOpen" \in changed THEN TRUE ELSE UNCHANGED isModalOpen
    /\ IF "editingTenant" \in changed THEN TRUE ELSE UNCHANGED editingTenant
    /\ IF "actionSuccess" \in changed THEN TRUE ELSE UNCHANGED actionSuccess
    /\ IF "actionError" \in changed THEN TRUE ELSE UNCHANGED actionError
    /\ IF "processingAction" \in changed THEN TRUE ELSE UNCHANGED processingAction
    /\ IF "timers" \in changed THEN TRUE ELSE UNCHANGED timers
    /\ IF "tableWire" \in changed THEN TRUE ELSE UNCHANGED tableWire

\* A step of the table page in the browser: the server and the other page
\* are not touched.
BrowserOnly == UNCHANGED <<store, inflight, response, page, calls>>

\* The requests of the page that are sent and not answered.
PageRequests == Cardinality(tableWire) + BagCardinality(inflight)

\* handleEditTenant(tenant), from the Edit button of a row; the rows are
\* behind the modal while it is open.
handleEditTenant(t) ==
    /\ ~isModalOpen
    /\ t \in DOMAIN tenants
    /\ editingTenant' = [id |-> t, roomId |-> tenants[t].roomId]
    /\ isModalOpen' = TRUE
    /\ TableKeeps({"editingTenant", "isModalOpen"})
    /\ BrowserOnly

\* The values of the inputs of the edit form.
EditForm(aadharNumber) == With(ValidB, "aadharNumber", aadharNumber)

\* "1234-5678-9012": an Aadhar number typed with dashes.
DashedAadhar ==
    Digits(4) \o <<"-">> \o SubSeq(Digits(8), 5, 8) \o <<"-">> \o SubSeq(Digits(12), 9, 12)

\* What the user may have in the form on Save: the Aadhar number in blocks
\* as displayed, with dashes, or a digit short; a phone number a digit
\* short; no name.
EditForms ==
    {EditForm(FormattedAadhar), EditForm(DashedAadhar), EditForm(Digits(11)),
     With(EditForm(FormattedAadhar), "phoneNumber", Digits(9)),
     With(EditForm(FormattedAadhar), "name", <<>>),
     With(EditForm(FormattedAadhar), "email", <<"a", "@", "b">>)}

\* The constraints of the inputs, which the browser checks before the submit
\* event: every input but email is required; pincode has pattern \d{6}, the
\* phone numbers \d{10}.
BrowserAccepts(form) ==
    /\ \A i \in DOMAIN requiredFields : ~Falsy(form, requiredFields[i])
    /\ MatchesDigits(form["pincode"], 6)
    /\ MatchesDigits(form["phoneNumber"], 10)
    /\ MatchesDigits(form["fatherPhoneNumber"], 10)

\* updatedTenant: the values of the form, the Aadhar number without its
\* white space, the id and roomId of editingTenant.
UpdatedTenant(form) ==
    With(With(With(form, "aadharNumber", unformatAadharNumber(form["aadharNumber"])),
              "id", Str(editingTenant.id)),
         "roomId", Str(editingTenant.roomId))

\* The check handleTenantUpdate makes before it sends.
ClientAcceptsEdit(updatedTenant) ==
    /\ updatedTenant["name"] # <<>>
    /\ updatedTenant["fatherName"] # <<>>
    /\ isValidPhoneNumber(updatedTenant["phoneNumber"])
    /\ isValidPhoneNumber(updatedTenant["fatherPhoneNumber"])
    /\ isValidAadharNumber(updatedTenant["aadharNumber"])
    /\ isValidPincode(updatedTenant["pincode"])

TableFetch(op, id, body) == [op |-> op, id |-> id, body |-> body]

\* handleTenantUpdate up to its await: from the Save button of the form, which
\* the modal shows while actionSuccess is null and which is disabled while
\* processingAction.
handleTenantUpdate(form) ==
    /\ isModalOpen /\ editingTenant # NoTenant
    /\ actionSuccess = <<>>
    /\ ~processingAction
    /\ BrowserAccepts(form)
    /\ PageRequests < MaxPageRequests
    /\ timers < MaxTimers
    /\ actionSuccess' = <<>>
    /\ IF ~ClientAcceptsEdit(UpdatedTenant(form))
       THEN /\ actionError' = <<"Please fill all required fields with valid data">>
            /\ processingAction' = FALSE
            /\ UNCHANGED tableWire
       ELSE /\ actionError' = <<>>
            /\ processingAction' = TRUE
            /\ tableWire' = tableWire \cup
                   {TableFetch("PATCH tenant", editingTenant.id, UpdatedTenant(form))}
    /\ TableKeeps({"actionSuccess", "actionError", "processingAction", "tableWire"})
    /\ BrowserOnly

\* closeModal, from the buttons of the modal.
closeModal ==
    /\ isModalOpen
    /\ isModalOpen' = FALSE
    /\ editingTenant' = NoTenant
    /\ actionError' = <<>>
    /\ actionSuccess' = <<>>
    /\ TableKeeps({"isModalOpen", "editingTenant", "actionError", "actionSuccess"})
    /\ BrowserOnly

\* The callback handleTenantUpdate set with setTimeout(..., 1500):
\* setIsModalOpen(false), and the rooms are fetched again.
CloseTimerFires ==
    /\ timers > 0
    /\ timers' = timers - 1
    /\ isModalOpen' = FALSE
    /\ TableKeeps({"timers", "isModalOpen"})
    /\ BrowserOnly

\* handleEmptyRoom up to its await, confirmed by the user: from the Empty Room
\* button on the first tenant row of a room.
handleEmptyRoom(roomId) ==
    /\ ~isModalOpen
    /\ TenantsOf(roomId) # {}
    /\ PageRequests < MaxPageRequests
    /\ processingAction' = TRUE
    /\ tableWire' = tableWire \cup {TableFetch("DELETE room tenants", roomId, << >>)}
    /\ TableKeeps({"processingAction", "tableWire"})
    /\ BrowserOnly

\* The rest of handleTenantUpdate and of handleEmptyRoom once the response r
\* to their fetch is there (NoResponse: it is not yet).
TableAnswered(r, roomId) ==
    IF r = NoResponse
    THEN UNCHANGED <<isModalOpen, editingTenant, actionSuccess, actionError,
                     processingAction, timers>>
    ELSE /\ processingAction' = FALSE
         /\ UNCHANGED <<isModalOpen, editingTenant>>
         /\ IF ~Ok(r)
            THEN actionError' = r.text /\ UNCHANGED <<actionSuccess, timers>>
            ELSE IF r.op = "PATCH tenant"
            THEN /\ actionSuccess' = <<"Tenant updated successfully">>
                 /\ timers' = timers + 1
                 /\ UNCHANGED actionError
            ELSE /\ actionSuccess' = <<"Room ", rooms[roomId].name,
                                       " emptied successfully. ", Str(r.n),
                                       " tenant(s) removed.">>
                 /\ UNCHANGED <<actionError, timers>>

\* The server takes a request of the table page and runs its handler to the
\* first store call.
TakeTableRequest ==
    \E f \in tableWire :
        /\ \/ f.op = "PATCH tenant" /\ PatchTenantCheck(Str(f.id), f.body)
           \/ f.op = "DELETE room tenants" /\ EmptyRoomCheck(Str(f.id))
        /\ tableWire' = tableWire \ {f}
        /\ TableAnswered(response', f.id)
        /\ UNCHANGED <<page, calls>>

\* A request of the table page makes its second store call and is answered.
ContinueTableRequest ==
    \E req \in Pending :
        /\ PatchTenantUpdate(req) \/ EmptyRoomDeleteMany(req)
        /\ TableAnswered(response', req.id)
        /\ UNCHANGED <<page, calls, tableWire>>

\* The table page in one browser, next to a client that creates tenants.
NextTable ==
    \/ \E t \in 1..MaxTenants : handleEditTenant(t)
    \/ \E form \in EditForms : handleTenantUpdate(form)
    \/ closeModal
    \/ CloseTimerFires
    \/ \E roomId \in DOMAIN rooms : handleEmptyRoom(roomId)
    \/ TakeTableRequest
    \/ ContinueTableRequest
    \/ ServiceOnly /\ \E i \in 1..NumRooms : PostTenant(With(ValidA, "roomId", Str(i)))
    \/ Deliver /\ ServiceOnly

SpecTable == Init /\ [][NextTable]_vars

\* ----------------------------------------- app/tenants/page.tsx (forms)
\* A step of the registration page that sends nothing: its forms alone change.
FormsOnly ==
    /\ UNCHANGED <<store, inflight, response, calls, tablePage>>
    /\ PageKeeps({"tenantForms"})

\* addTenantForm: setTenantForms([...tenantForms, createEmptyTenantForm()])
addTenantForm ==
    /\ Len(tenantForms) < MaxForms
    /\ tenantForms' = Append(tenantForms, EmptyTenantForm)
    /\ FormsOnly

\* tenantForms.filter((_, i) => i !== index), positions counted from 1.
FormsExcept(index) ==
    [i \in 1..(Len(tenantForms) - (IF index \in DOMAIN tenantForms THEN 1 ELSE 0)) |->
        IF i < index THEN tenantForms[i] ELSE tenantForms[i + 1]]

\* As removeTenantForm, without the test of tenantForms.length.
removeAnyTenantForm(index) ==
    /\ tenantForms' = FormsExcept(index)
    /\ FormsOnly

\* removeTenantForm(index)
removeTenantForm(index) ==
    /\ tenantForms' = IF Len(tenantForms) > 1 THEN FormsExcept(index) ELSE tenantForms
    /\ FormsOnly

\* The value updateTenantForm stores for a field: an Aadhar number formatted,
\* a phone number or pincode reduced to its digits and stored when they are
\* not more than 10 or 6, else the value kept; any other field as typed.
FieldValue(form, field, value) ==
    LET cleanedValue == StripNonDigits(value) IN
    IF field = "aadharNumber" THEN formatAadharNumber(value)
    ELSE IF field \in {"phoneNumber", "fatherPhoneNumber"}
    THEN IF Len(cleanedValue) <= 10 THEN cleanedValue ELSE form[field]
    ELSE IF field = "pincode"
    THEN IF Len(cleanedValue) <= 6 THEN cleanedValue ELSE form[field]
    ELSE value

\* updateTenantForm(index, field, value), from the input of a form shown.
updateTenantForm(index, field, value) ==
    /\ index \in DOMAIN tenantForms
    /\ tenantForms' = [tenantForms EXCEPT
                          ![index] = With(@, field, FieldValue(@, field, value))]
    /\ FormsOnly

\* What is typed into the forms: a name, an Aadhar number, a phone number
\* of 11 digits.
TypedValues ==
    {<<"name", <<"B">> >>, <<"aadharNumber", Digits(12)>>, <<"phoneNumber", Digits(11)>>}

InitForms ==
    /\ ServiceInit /\ CallsInit /\ TableInit
    /\ selectedRoom = 1
    /\ tenantForms \in {<<FormOf(ValidA)>>, <<EmptyTenantForm>>}
    /\ submittedForms = <<>>
    /\ rentAmount = <<"5">>
    /\ periodFrom = DateString(2024, 1, 15).s
    /\ error = <<>> /\ success = <<>> /\ submitting = FALSE
    /\ shownTenants = <<>>
    /\ pc = "idle" /\ wire = {}
    /\ roomResponse = NoResponse /\ responses = << >>

\* The registration page: its forms are added, removed and filled in, also
\* while a submission is under way.
NextForms ==
    \/ addTenantForm
    \/ \E index \in 1..MaxForms : removeTenantForm(index)
    \/ \E index \in 1..MaxForms, typed \in TypedValues :
          updateTenantForm(index, typed[1], typed[2])
    \/ HandleSubmit
    \/ TakeRoomUpdate
    \/ ContinueRoomUpdate
    \/ AfterRoomUpdate
    \/ TakeCreate
    \/ AfterCreates
    \/ RefreshTenants
    \/ RefreshRoom
    \/ EffectFetchTenants
    \/ Deliver /\ ServiceOnly

SpecForms == InitForms /\ [][NextForms]_vars

\* ------------------------------------------------------------------ claims
RoomParams == IdParams(NumRooms)

TenantParams == IdParams(MaxTenants)

\* C1: referential integrity. Under any interleaving of tenant create, tenant
\* delete, empty-room and room delete, the roomId of every stored tenant is
\* the id of a stored room.
C1_ReferentialIntegrity ==
    \A t \in DOMAIN tenants : tenants[t].roomId \in DOMAIN rooms

\* The race C1 is about: a room delete has read an empty room and, before
\* its DELETE, a tenant was created in that room.
C1_Witness ==
    \E req \in Pending : req.op = "DELETE room" /\ TenantsOf(req.id) # {}

\* C2: DELETE /rooms/{id} of a stored room that owns tenants returns the
\* conflict error and changes neither the room nor a tenant; of a stored
\* room without tenants it goes on to the DELETE, which succeeds and
\* removes that room and nothing else.
C2_DeleteRoom ==
    [][/\ \A p \in RoomParams :
            LET id == parseInt(p) IN
            (DeleteRoomRead(p) /\ ~isNaN(id) /\ id[1] \in DOMAIN rooms) =>
                /\ UNCHANGED store
                /\ IF \E t \in DOMAIN tenants : tenants[t].roomId = id[1]
                   THEN response' = RoomHasTenants /\ UNCHANGED inflight
                   ELSE DeleteRoomRequest(id[1]) \in BagToSet(inflight')
       /\ \A req \in Pending :
            DeleteRoomDelete(req) =>
                /\ req.id \in DOMAIN rooms
                /\ response' = RoomDeleted
                /\ DOMAIN rooms' = DOMAIN rooms \ {req.id}
                /\ \A r \in DOMAIN rooms' : rooms'[r] = rooms[r]
                /\ UNCHANGED tenants
      ]_vars

\* A room delete was refused because of the tenants of the room, which are
\* still stored.
C2_Witness ==
    /\ response = RoomHasTenants
    /\ \E r \in DOMAIN rooms : TenantsOf(r) # {}

\* C3: POST /tenants with a roomId that is no stored room writes nothing,
\* and when the body has every column the database needs the response is
\* the room-not-found error, which is not the duplicate error (409).
C3_PostUnknownRoom ==
    [][\A d \in PostBodies : \A b \in WithRoomId(d) :
          LET roomId == Number(b, "roomId") IN
          (PostTenant(b) /\ (isNaN(roomId) \/ roomId[1] \notin DOMAIN rooms)) =>
              /\ UNCHANGED store
              /\ response'.status # 409
              /\ (TenantRequiredColumns \subseteq DOMAIN b /\ ~isNaN(roomId))
                    => response' = Error("POST tenant", 400,
                                         <<"The specified room does not exist">>)
      ]_vars

\* A create was answered with the room-not-found error.
C3_Witness == response = RoomMissing

\* What the specification calls a string of exactly n digits.
IsDigitString(s, n) ==
    /\ Len(s) = n
    /\ \A i \in 1..n : s[i] \in {"0", "1", "2", "3", "4", "5", "6", "7", "8", "9"}

\* The format invariants of a tenant, on a row or on a body that has the fields.
WellFormatted(t) ==
    /\ IsDigitString(t["aadharNumber"], 12)
    /\ IsDigitString(t["phoneNumber"], 10)
    /\ IsDigitString(t["fatherPhoneNumber"], 10)
    /\ IsDigitString(t["pincode"], 6)

\* C4: every stored tenant has a 12-digit aadharNumber, a 10-digit
\* phoneNumber and fatherPhoneNumber and a 6-digit pincode.
C4_StoredFormats == \A t \in DOMAIN tenants : WellFormatted(tenants[t])

\* The eleven fields a tenant must have, in the order the specification lists them.
ElevenFields ==
    <<"name", "fatherName", "villageName", "tehsil", "policeStation", "district",
      "pincode", "state", "phoneNumber", "fatherPhoneNumber", "aadharNumber">>

Missing(b, field) == field \notin DOMAIN b \/ Len(b[field]) = 0

MissesAField(b) == \E i \in 1..Len(ElevenFields) : Missing(b, ElevenFields[i])

\* A field the body has is not of its format.
BreaksAFormat(b) ==
    \/ \E f \in {"phoneNumber", "fatherPhoneNumber"} :
          f \in DOMAIN b /\ ~IsDigitString(b[f], 10)
    \/ "aadharNumber" \in DOMAIN b /\ ~IsDigitString(b["aadharNumber"], 12)
    \/ "pincode" \in DOMAIN b /\ ~IsDigitString(b["pincode"], 6)

\* C5: POST /tenants rejects a body that misses a required field or breaks
\* a format with a validation error (400) and stores no tenant.
C5_CreateValidates ==
    [][\A d \in PostBodies : \A b \in WithRoomId(d) :
          (PostTenant(b) /\ (MissesAField(b) \/ BreaksAFormat(b))) =>
              /\ response'.status = 400
              /\ UNCHANGED tenants
      ]_vars

FormatErrors ==
    {Error("PATCH tenant", 400, <<"phoneNumber", " must be 10 digits">>),
     Error("PATCH tenant", 400, <<"fatherPhoneNumber", " must be 10 digits">>),
     Error("PATCH tenant", 400, <<"Aadhar number must be 12 digits">>),
     Error("PATCH tenant", 400, <<"Pincode must be 6 digits">>)}

\* C6: PATCH /tenants/{id} with a body that breaks a format is rejected
\* with status 400 and no stored tenant changes; the error is the format
\* error whenever the id parses and no required field is missing.
C6_PatchRejectsFormat ==
    [][\A p \in TenantParams : \A b \in Bodies :
          (PatchTenantCheck(p, b) /\ BreaksAFormat(b)) =>
              /\ response'.op = "PATCH tenant"
              /\ response'.status = 400
              /\ UNCHANGED <<store, inflight>>
              /\ (~isNaN(parseInt(p)) /\ ~MissesAField(b)) => response' \in FormatErrors
      ]_vars

\* A tenant is stored and an update of a tenant was refused for its phone number.
C6_Witness ==
    /\ response = Error("PATCH tenant", 400, <<"phoneNumber", " must be 10 digits">>)
    /\ DOMAIN tenants # {}

\* The first of the eleven fields, in the listed order, that the body misses.
FirstOfElevenMissing(b) ==
    LET i == CHOOSE k \in 1..Len(ElevenFields) :
                 /\ Missing(b, ElevenFields[k])
                 /\ \A j \in 1..(k - 1) : ~Missing(b, ElevenFields[j])
    IN ElevenFields[i]

\* C7: PATCH /tenants/{id} with a body that misses one of the eleven
\* required fields is rejected with a 400 error naming the first missing
\* field in the listed order, and no stored tenant changes.
C7_PatchRequiresAll ==
    [][\A p \in TenantParams : \A b \in Bodies :
          (PatchTenantCheck(p, b) /\ ~isNaN(parseInt(p)) /\ MissesAField(b)) =>
              /\ response' = Error("PATCH tenant", 400,
                                   <<"Field '", FirstOfElevenMissing(b), "' is required">>)
              /\ UNCHANGED <<store, inflight>>
      ]_vars

\* An update whose body misses tehsil and district was refused for tehsil,
\* while a tenant is stored.
C7_Witness ==
    /\ response = Error("PATCH tenant", 400, <<"Field '", "tehsil", "' is required">>)
    /\ DOMAIN tenants # {}

\* C8: empty room on a stored room removes exactly the tenants of that
\* room, returns their number (0 included) with status 200, and leaves the
\* room, every other room and every other tenant as they were.
C8_EmptyRoom ==
    [][/\ \A p \in RoomParams :
            (EmptyRoomCheck(p) /\ ~isNaN(parseInt(p))
                               /\ parseInt(p)[1] \in DOMAIN rooms) =>
                /\ UNCHANGED store
                /\ EmptyRoomRequest(parseInt(p)[1]) \in BagToSet(inflight')
       /\ \A req \in Pending :
            EmptyRoomDeleteMany(req) =>
                LET gone == {t \in DOMAIN tenants : tenants[t].roomId = req.id} IN
                /\ req.id \in DOMAIN rooms
                /\ DOMAIN tenants' = DOMAIN tenants \ gone
                /\ \A t \in DOMAIN tenants' : tenants'[t] = tenants[t]
                /\ response'.op = "DELETE room tenants"
                /\ response'.status = 200
                /\ response'.n = Cardinality(gone)
                /\ UNCHANGED rooms
      ]_vars

\* A room with one tenant was emptied while the other room keeps its tenant.
C8_Witness ==
    /\ response = RoomEmptied(1)
    /\ DOMAIN tenants # {}

\* C9: empty room fails only if the room does not exist: for an id that
\* parses and is no stored room it returns 404 and deletes nothing; for a
\* stored room it reaches deleteMany, and deleteMany always answers 200.
C9_EmptyRoomFailsOnlyIfMissing ==
    [][/\ \A p \in RoomParams :
            LET id == parseInt(p) IN
            (EmptyRoomCheck(p) /\ ~isNaN(id)) =>
                /\ UNCHANGED store
                /\ IF id[1] \in DOMAIN rooms
                   THEN /\ EmptyRoomRequest(id[1]) \in BagToSet(inflight')
                        /\ response'.status = 0
                   ELSE /\ response' = Error("DELETE room tenants", 404, <<"Room not found">>)
                        /\ UNCHANGED inflight
       /\ \A req \in Pending :
            EmptyRoomDeleteMany(req) => response'.status = 200
      ]_vars

\* Empty room was answered 404 while tenants are stored.
C9_Witness ==
    /\ response = RoomNotFound("DELETE room tenants")
    /\ DOMAIN tenants # {}

\* C10: for a tenant id that parses and is not stored, GET, PATCH with a
\* valid body and DELETE /tenants/{id} return 404 and change nothing; for
\* an id that does not parse they return 400.
C10_TenantNotFound ==
    [][\A p \in TenantParams :
          LET id == parseInt(p)
              Answered(op) ==
                  /\ response'.op = op
                  /\ response'.status = IF isNaN(id) THEN 400 ELSE 404
                  /\ UNCHANGED <<store, inflight>>
          IN (isNaN(id) \/ id[1] \notin DOMAIN tenants) =>
                /\ GetTenant(p) => Answered("GET tenant")
                /\ \A b \in ValidBodies :
                      PatchTenantCheck(p, b) => Answered("PATCH tenant")
                /\ DeleteTenantCheck(p) => Answered("DELETE tenant")
      ]_vars

\* Tenant 1 was created and deleted, and a DELETE of a tenant was answered 404.
C10_Witness ==
    /\ response = TenantNotFound("DELETE tenant")
    /\ nextTenantId > 1
    /\ 1 \notin DOMAIN tenants

\* The calendar date a YYYY-MM-DD string of the year 2024 names.
DateNamed(v) ==
    CHOOSE date \in {Date(2024, m, d) : m \in 1..12, d \in 1..31} :
        DateString(date.y, date.m, date.d) = v

LastDayOfMonth(y, m) ==
    CASE m \in {1, 3, 5, 7, 8, 10, 12} -> 31
      [] m \in {4, 6, 9, 11} -> 30
      [] m = 2 /\ y % 4 = 0 /\ (y % 100 # 0 \/ y % 400 = 0) -> 29
      [] OTHER -> 28

\* date + 11 calendar months: the same day of the month eleven months on
\* when that month has the day, else the excess days into the month after.
ElevenMonthsLater(date) ==
    LET ty == IF date.m = 1 THEN date.y ELSE date.y + 1
        tm == IF date.m = 1 THEN 12 ELSE date.m - 1
    IN IF date.d <= LastDayOfMonth(ty, tm) THEN Date(ty, tm, date.d)
       ELSE Date(ty, tm + 1, date.d - LastDayOfMonth(ty, tm))

\* C11: a room update with periodFrom and without periodTo stores
\* periodTo = periodFrom + 11 calendar months, whatever the time zone of
\* the server: the update it queues carries that date, and the UPDATE
\* stores the date it carries.
C11_PeriodToDerived ==
    [][/\ \A p \in PatchRoomParams, b \in AcceptedRoomBodies, tz \in TimeZones :
            (/\ PatchRoomCheck(p, b, tz)
             /\ "periodFrom" \in DOMAIN b /\ b["periodFrom"] \in PeriodStarts
             /\ "periodTo" \notin DOMAIN b
             /\ ~isNaN(parseInt(p)) /\ parseInt(p)[1] \in DOMAIN rooms) =>
                \E req \in BagToSet(inflight') :
                    /\ req.op = "PATCH room" /\ req.stage = "update"
                    /\ req.set["periodFrom"] = DateNamed(b["periodFrom"])
                    /\ req.set["periodTo"] = ElevenMonthsLater(DateNamed(b["periodFrom"]))
       /\ \A req \in Pending :
            (PatchRoomUpdate(req) /\ "periodTo" \in DOMAIN req.set
                                  /\ response'.status = 0) =>
                rooms'[req.id].periodTo = req.set["periodTo"]
      ]_vars

\* C12: a room update changes, in the room it names, the columns whose
\* fields the body supplies (periodTo also when it is derived from a
\* supplied periodFrom), an explicit periodTo as it was given, and nothing
\* else: not the name or the set of rooms, not another room, not a tenant;
\* a body with none of the three fields reaches no UPDATE.
C12_PatchRoomFrame ==
    [][/\ \A p \in PatchRoomParams, b \in RoomBodies, tz \in TimeZones :
            PatchRoomCheck(p, b, tz) =>
                /\ UNCHANGED store
                /\ \A req \in BagToSet(inflight') :
                      /\ DOMAIN req.set \subseteq
                           (DOMAIN b \cap {"rentAmount", "periodFrom", "periodTo"})
                             \cup (IF "periodFrom" \in DOMAIN b THEN {"periodTo"} ELSE {})
                      /\ "rentAmount" \in DOMAIN req.set =>
                            req.set["rentAmount"] = b["rentAmount"]
                      /\ ("periodTo" \in DOMAIN b /\ b["periodTo"] = ExplicitPeriodTo) =>
                            req.set["periodTo"] = DateNamed(ExplicitPeriodTo)
                      /\ (DOMAIN b \cap {"rentAmount", "periodFrom", "periodTo"} = {}) =>
                            req.stage = "read"
       /\ \A req \in Pending :
            PatchRoomUpdate(req) =>
                /\ UNCHANGED <<tenants, nextTenantId>>
                /\ DOMAIN rooms' = DOMAIN rooms
                /\ \A r \in DOMAIN rooms \ {req.id} : rooms'[r] = rooms[r]
                /\ req.id \in DOMAIN rooms =>
                      LET before == rooms[req.id]
                          after == rooms'[req.id]
                          Kept(k) == k \notin DOMAIN req.set \/ response'.status = 500
                      IN /\ after.name = before.name
                         /\ after.createdAt = before.createdAt
                         /\ Kept("rentAmount") => after.rentAmount = before.rentAmount
                         /\ Kept("periodFrom") => after.periodFrom = before.periodFrom
                         /\ Kept("periodTo") => after.periodTo = before.periodTo
                         /\ ~Kept("rentAmount") => after.rentAmount = req.set["rentAmount"].n
                         /\ ~Kept("periodFrom") => after.periodFrom = req.set["periodFrom"]
                         /\ ~Kept("periodTo") => after.periodTo = req.set["periodTo"]
       /\ \A req \in Pending : PatchRoomReread(req) => UNCHANGED store
      ]_vars

\* The first room has the rent of an update and still the period of the
\* seed, the other room is as seeded, and a tenant is stored.
C12_Witness ==
    /\ response = RoomJson("PATCH room", 1)
    /\ 1 \in DOMAIN rooms /\ rooms[1].rentAmount = 5 /\ rooms[1].periodFrom = SeedDate
    /\ NumRooms \in DOMAIN rooms /\ rooms[NumRooms] = SeedRoom(NumRooms)
    /\ DOMAIN tenants # {}

\* What the specification calls a rent that is present and negative or
\* not a number, and a period that is present and does not parse as a date.
BadRent(b) ==
    "rentAmount" \in DOMAIN b
        /\ (b["rentAmount"].type # "number" \/ b["rentAmount"].n < 0)

BadPeriod(b, key) ==
    key \in DOMAIN b
        /\ b[key] \notin {DateString(2024, m, d) : m \in 1..12, d \in 1..28}
                           \cup PeriodStarts \cup {ExplicitPeriodTo}

\* C13: a room update of a stored room whose rentAmount is present and
\* negative or not a number, or whose periodFrom or periodTo is present and
\* no date, is answered 400 and nothing is written or queued.
C13_PatchRoomRejects ==
    [][\A p \in PatchRoomParams, b \in RoomBodies, tz \in TimeZones :
          (/\ PatchRoomCheck(p, b, tz)
           /\ ~isNaN(parseInt(p)) /\ parseInt(p)[1] \in DOMAIN rooms
           /\ (BadRent(b) \/ BadPeriod(b, "periodFrom") \/ BadPeriod(b, "periodTo"))) =>
              /\ response'.status = 400
              /\ UNCHANGED <<store, inflight>>
      ]_vars

\* C14: a room update with a body that passes the checks, for an id that
\* parses and is no stored room, is answered 404, writes nothing and
\* queues nothing; no step of a room update adds a room.
C14_PatchRoomNotFound ==
    [][/\ \A p \in PatchRoomParams, b \in AcceptedRoomBodies, tz \in TimeZones :
            (/\ PatchRoomCheck(p, b, tz)
             /\ ~isNaN(parseInt(p)) /\ parseInt(p)[1] \notin DOMAIN rooms) =>
                /\ response' = Error("PATCH room", 404, <<"Room not found">>)
                /\ UNCHANGED <<store, inflight>>
       /\ \A req \in Pending :
            (PatchRoomUpdate(req) \/ PatchRoomReread(req)) =>
                DOMAIN rooms' \subseteq DOMAIN rooms
      ]_vars

\* A room update was answered 404 while tenants are stored.
C14_Witness ==
    /\ response = RoomNotFound("PATCH room")
    /\ DOMAIN tenants # {}

\* C15: an UPDATE of a room update that changes the row, and a successful
\* tenant update, leave updatedAt later than it was; no step changes the
\* createdAt of a room or a tenant.
C15_UpdatedAtBumped ==
    [][/\ \A req \in Pending :
            (PatchRoomUpdate(req) /\ req.id \in DOMAIN rooms
                                  /\ rooms'[req.id] # rooms[req.id]) =>
                rooms'[req.id].updatedAt > rooms[req.id].updatedAt
       /\ \A req \in Pending :
            (PatchTenantUpdate(req) /\ response'.status = 200) =>
                tenants'[req.id].updatedAt > tenants[req.id].updatedAt
       /\ \A r \in DOMAIN rooms \cap DOMAIN rooms' :
            rooms'[r].createdAt = rooms[r].createdAt
       /\ \A t \in DOMAIN tenants \cap DOMAIN tenants' :
            tenants'[t].createdAt = tenants[t].createdAt
      ]_vars

\* C16: a tenant create for a stored room whose aadharNumber is that of a
\* stored tenant is answered 409 and stores no tenant.
C16_CreateDuplicate ==
    [][\A d \in StoredBodies : \A i \in DOMAIN rooms :
          (/\ PostTenant(With(d, "roomId", Str(i)))
           /\ \E t \in DOMAIN tenants : tenants[t].aadharNumber = d["aadharNumber"]) =>
              /\ response'.status = 409
              /\ UNCHANGED tenants
      ]_vars

\* Where a name of the inputs stands in alphabetical order.
AlphabeticalRank(name) ==
    CHOOSE k \in 1..2 : <<(<<"A">>), (<<"B">>)>>[k] = name

FloorRank(name) == CHOOSE k \in 1..3 : <<"G", "F", "S">>[k] = name[1]

\* The integer the digits of a name form, 0 when it has none.
RECURSIVE DigitsValue(_)
DigitsValue(name) ==
    IF name = <<>> THEN 0
    ELSE LET last == name[Len(name)]
             rest == SubSeq(name, 1, Len(name) - 1)
         IN IF last \in {"0", "1", "2", "3", "4", "5", "6", "7", "8", "9"}
            THEN 10 * DigitsValue(rest)
                   + (CHOOSE v \in 0..9 :
                         <<"0", "1", "2", "3", "4", "5", "6", "7", "8", "9">>[v + 1] = last)
            ELSE DigitsValue(rest)

\* C19: sorting a list of rooms whose names begin with G, F or S gives the
\* same rooms with the G rooms first, then the F rooms, then the S rooms,
\* and within a floor in ascending order of the integer their digits form;
\* the list F2, G1, S1, F10, F1 gives G1, F1, F2, F10, S1.
C19_RoomOrder ==
    called.fn = "sort" =>
        /\ Len(returned) = Len(called.arg)
        /\ \A name \in RoomNames :
              Cardinality({i \in DOMAIN returned : returned[i] = name})
                 = Cardinality({i \in DOMAIN called.arg : called.arg[i] = name})
        /\ \A i, j \in DOMAIN returned :
              i < j =>
                 \/ FloorRank(returned[i]) < FloorRank(returned[j])
                 \/ /\ FloorRank(returned[i]) = FloorRank(returned[j])
                    /\ DigitsValue(returned[i]) <= DigitsValue(returned[j])
        /\ called.arg = ListOfFive =>
              returned = <<(<<"G", "1">>), (<<"F", "1">>), (<<"F", "2">>),
                           (<<"F", "1", "0">>), (<<"S", "1">>)>>

\* The list of five was sorted.
C19_Witness == called.fn = "sort" /\ called.arg = ListOfFive /\ returned[1] = <<"G", "1">>

\* The number of digit characters of a string.
DigitCount(x) ==
    Cardinality({i \in DOMAIN x : x[i] \in {"0", "1", "2", "3", "4", "5", "6", "7", "8", "9"}})

\* C20: isValidPhoneNumber(x) is true iff x has exactly 10 digit characters,
\* isValidAadharNumber(x) iff exactly 12, isValidPincode(x) iff exactly 6.
C20_Validators ==
    /\ called.fn = "isValidPhoneNumber" => (returned <=> DigitCount(called.arg) = 10)
    /\ called.fn = "isValidAadharNumber" => (returned <=> DigitCount(called.arg) = 12)
    /\ called.fn = "isValidPincode" => (returned <=> DigitCount(called.arg) = 6)

\* A phone number of 10 digits written with separators was accepted.
C20_Witness ==
    /\ called.fn = "isValidPhoneNumber"
    /\ Len(called.arg) = 12 /\ DigitCount(called.arg) = 10
    /\ returned

\* C17: when handleSubmit finds that a tenant create failed while another
\* succeeded, the room still has the rent and period start of the update, the
\* tenants created are stored in the selected room, and the step rolls
\* nothing back: the store is unchanged, the error of the failed create is
\* shown, no success is shown and the forms stay as they were.
C17_SubmitNotAtomic ==
    [][(/\ AfterCreates
        /\ \E i \in DOMAIN responses : ~(responses[i].status \in 200..299)
        /\ \E i \in DOMAIN responses : responses[i].status \in 200..299) =>
            /\ selectedRoom \in DOMAIN rooms
            /\ Str(rooms[selectedRoom].rentAmount) = rentAmount
            /\ rooms[selectedRoom].periodFrom = Date(2024, 1, 15)
            /\ \A i \in DOMAIN responses :
                  responses[i].status = 201 =>
                      /\ responses[i].n \in DOMAIN tenants
                      /\ tenants[responses[i].n].roomId = selectedRoom
                      /\ tenants[responses[i].n].name = tenantForms[i]["name"]
            /\ UNCHANGED <<rooms, tenants>>
            /\ error' # <<>>
            /\ \E i \in DOMAIN responses : error' = responses[i].text
            /\ success' = <<>>
            /\ tenantForms' = tenantForms
            /\ pc' = "idle"
      ]_vars

\* A submission of two forms ended with an error: the first tenant is
\* stored, the second create failed, both forms are still there.
C17_Witness ==
    /\ pc = "idle" /\ error = CreateFailed.text
    /\ Len(tenantForms) = 2 /\ DOMAIN responses = {1, 2}
    /\ responses[1].status = 201 /\ responses[2].status = 500
    /\ responses[1].n \in DOMAIN tenants
    /\ rooms[selectedRoom].rentAmount = 5

\* C21: formatAadharNumber returns the first 12 digits of its argument with
\* one space after the 4th and the 8th when digits follow; unformatting that
\* gives back a string of at most 12 digits whole, and of a longer one its
\* first 12 digits.
C21_AadharRoundTrip ==
    LET d == called.arg
        kept == IF Len(d) <= 12 THEN d ELSE SubSeq(d, 1, 12)
    IN AllDigits(d) =>
          /\ called.fn = "formatAadharNumber" =>
                /\ Len(returned) = Len(kept) + ((IF Len(kept) = 0 THEN 0 ELSE Len(kept) - 1) \div 4)
                /\ \A i \in 1..Len(returned) :
                      IF i % 5 = 0 THEN returned[i] = " "
                      ELSE returned[i] = kept[i - (i \div 5)]
          /\ called.fn = "unformatAadharNumber" => returned = kept

\* Thirteen digits were formatted and unformatted, and came back cut to
\* twelve.
C21_Witness ==
    /\ called.fn = "unformatAadharNumber"
    /\ AllDigits(called.arg) /\ Len(called.arg) = 13
    /\ Len(returned) = 12

\* The page as filled in does not pass the client's validation: no room, no
\* rent, a form with an empty required field, a phone number, Aadhar number
\* or pincode without its 10, 12 or 6 digits, or a period start that is not
\* YYYY-MM-DD once the blanks around it are dropped.
ClientRejects ==
    \/ selectedRoom = 0
    \/ rentAmount = <<>>
    \/ \E i \in DOMAIN tenantForms :
          LET form == tenantForms[i] IN
          \/ \E k \in DOMAIN form : k # "email" /\ form[k] = <<>>
          \/ DigitCount(form["phoneNumber"]) # 10
          \/ DigitCount(form["fatherPhoneNumber"]) # 10
          \/ DigitCount(form["aadharNumber"]) # 12
          \/ DigitCount(form["pincode"]) # 6
    \/ LET text == SelectSeq(periodFrom, LAMBDA c : c # " ")
       IN ~(/\ Len(text) = 10
            /\ \A i \in 1..10 : IF i \in {5, 8} THEN text[i] = "-"
                                ELSE DigitCount(<<text[i]>>) = 1)

\* C22: a submission that the client's validation rejects sends nothing and
\* writes nothing; a POST of a tenant is under way only after the PATCH of
\* the room was answered 200; and every tenant a POST of the page creates is
\* in the selected room.
C22_RoomUpdateFirst ==
    [][/\ (HandleSubmit /\ ClientRejects) =>
              /\ wire' = wire /\ UNCHANGED <<rooms, tenants>>
              /\ pc' = "idle" /\ error' # <<>>
       /\ \A i \in DOMAIN tenantForms' :
              [op |-> "POST tenant", i |-> i] \in wire' =>
                  /\ roomResponse' # NoResponse
                  /\ roomResponse'.op = "PATCH room"
                  /\ roomResponse'.status = 200
       /\ \A i \in DOMAIN tenantForms :
              ([op |-> "POST tenant", i |-> i] \in wire \ wire'
                  /\ response'.status = 201) =>
                      /\ tenants'[response'.n].roomId = selectedRoom
                      /\ selectedRoom \in DOMAIN rooms
      ]_vars

\* The POSTs of two forms are under way after the PATCH was answered 200;
\* elsewhere a rejected submission has shown its message with nothing sent.
C22_Witness ==
    /\ pc = "tenants"
    /\ [op |-> "POST tenant", i |-> 2] \in wire
    /\ roomResponse.status = 200
    /\ responses[1] # NoResponse /\ responses[1].status = 201

\* C23: when a PATCH of a room is answered 200, the answer is a room that is
\* stored, also when a DELETE of the room came between its steps.
C23_PatchOfDeletedRoom ==
    [][(response'.op = "PATCH room" /\ response'.status = 200 /\ response = NoResponse) =>
           /\ response'.n \in DOMAIN rooms'
           /\ response'.text = <<"room">>
      ]_vars

\* C24: a DELETE of a tenant is answered 200 by the step that removes the
\* tenant, and otherwise 400 or 404: when another request removed the tenant
\* first, also between its check and its delete, the answer is 404.
C24_TenantDeletedOnce ==
    [][(response'.op = "DELETE tenant" /\ response = NoResponse) =>
           /\ response'.status \in {200, 400, 404}
           /\ response'.status = 200 =>
                 \E id \in DOMAIN tenants : tenants' = RowsExcept(tenants, {id})
      ]_vars

\* Date a is not later than date b.
NotLater(a, b) ==
    \/ a.y < b.y
    \/ a.y = b.y /\ a.m < b.m
    \/ a.y = b.y /\ a.m = b.m /\ a.d <= b.d

\* C25: the period of every room is a range: its periodTo is not earlier
\* than its periodFrom.
C25_PeriodIsRange ==
    \A r \in DOMAIN rooms : NotLater(rooms[r].periodFrom, rooms[r].periodTo)

\* C26: a PATCH of a tenant that is answered 200 has given the tenant the
\* twelve fields of the body (the email only when the body has one) and has
\* left its id, roomId and createdAt, the other tenants and the rooms as
\* they were, whatever roomId the body carries.
C26_PatchTenantNeverMoves ==
    [][\A req \in BagToSet(inflight) :
          (req.op = "PATCH tenant" /\ PatchTenantUpdate(req) /\ response'.status = 200) =>
              /\ rooms' = rooms
              /\ DOMAIN tenants' = DOMAIN tenants
              /\ \A t \in DOMAIN tenants : t # req.id => tenants'[t] = tenants[t]
              /\ response'.n = req.id
              /\ tenants'[req.id].roomId = tenants[req.id].roomId
              /\ tenants'[req.id].createdAt = tenants[req.id].createdAt
              /\ \A k \in DOMAIN req.body \ {"roomId"} : tenants'[req.id][k] = req.body[k]
              /\ "email" \notin DOMAIN req.body =>
                    tenants'[req.id].email = tenants[req.id].email
      ]_vars

\* The tenant of room 1 was updated with the body that names another room,
\* and is still in room 1.
C26_Witness ==
    /\ response.op = "PATCH tenant" /\ response.status = 200
    /\ response.n \in DOMAIN tenants
    /\ tenants[response.n].name = ValidB["name"]
    /\ tenants[response.n].roomId = 1
    /\ tenants[response.n].email = ValidA["email"]

\* C27: what the check of handleTenantUpdate lets through, the format checks
\* of PATCH /api/tenants/[id] let through: the PATCH the page sent is not
\* answered 400; and an edit whose phone numbers, Aadhar number and pincode
\* are 10, 10, 12 and 6 digits as sent is not refused by the page.
C27_SameFormatRules ==
    [][/\ \A f \in tableWire \ tableWire' :
              f.op = "PATCH tenant" => response'.status # 400
       /\ \A form \in EditForms :
              (/\ handleTenantUpdate(form)
               /\ IsDigitString(form["phoneNumber"], 10)
               /\ IsDigitString(form["fatherPhoneNumber"], 10)
               /\ IsDigitString(SelectSeq(form["aadharNumber"], LAMBDA c : c # " "), 12)
               /\ IsDigitString(form["pincode"], 6)) =>
                   actionError' = <<>> /\ tableWire' # tableWire
      ]_vars

\* C28: handleEditTenant opens the modal on the edit form of the tenant
\* chosen: after it the modal is open, editingTenant is that tenant and
\* actionSuccess is null; and while the modal is open, actionSuccess is set
\* only by the answer to an update, which starts the timer of the close.
C28_ModalShowsEditForm ==
    [][/\ \A t \in DOMAIN tenants :
              handleEditTenant(t) =>
                  /\ isModalOpen' /\ editingTenant'.id = t
                  /\ actionSuccess' = <<>>
       /\ (isModalOpen' /\ actionSuccess' # <<>> /\ actionSuccess = <<>>) =>
              timers' = timers + 1
      ]_vars

\* C29: the list of tenant forms is never empty; removeTenantForm leaves a
\* list of one form as it is and takes one form from a longer list; and the
\* end of a submission whose creates all succeeded leaves exactly one form,
\* which is empty.
C29_FormsNeverEmpty ==
    [][/\ Len(tenantForms) >= 1 /\ Len(tenantForms') >= 1
       /\ \A index \in 1..MaxForms :
              removeTenantForm(index) =>
                  IF Len(tenantForms) = 1 THEN tenantForms' = tenantForms
                  ELSE Len(tenantForms') = Len(tenantForms) - 1
       /\ (pc = "refresh room" /\ pc' = "idle") =>
              /\ Len(tenantForms') = 1
              /\ \A k \in DOMAIN tenantForms'[1] : tenantForms'[1][k] = <<>>
      ]_vars

\* A submission of one form, filled in with another name, has succeeded: one
\* empty form is left and the tenant is stored.
C29_Witness ==
    /\ pc = "idle" /\ success # <<>>
    /\ Len(submittedForms) = 1 /\ submittedForms[1]["name"] = <<"B">>
    /\ tenantForms = <<EmptyTenantForm>>
    /\ \E t \in DOMAIN tenants : tenants[t].name = <<"B">>

\* C30: for names of any kind the comparator is an ordering: of two rooms
\* one is before the other exactly when the other is not before it, no three
\* rooms are each before the next in a circle, and in the sorted list no
\* room comes after a room it is before, in whatever order the list came.
C30_ComparatorConsistent ==
    called.fn = "sort" =>
        /\ \A i, j \in DOMAIN returned :
              (CompareRooms(returned[i], returned[j]) < 0)
                  = (CompareRooms(returned[j], returned[i]) > 0)
        /\ \A i, j, k \in DOMAIN returned :
              ~(/\ CompareRooms(returned[i], returned[j]) < 0
                /\ CompareRooms(returned[j], returned[k]) < 0
                /\ CompareRooms(returned[k], returned[i]) < 0)
        /\ \A i, j \in DOMAIN returned :
              i < j => CompareRooms(returned[j], returned[i]) >= 0

====
